---- MODULE Spec2Model ----
(***************************************************************************)
(* A model of the codecs of hitman-formats.                                *)
(*                                                                         *)
(* src/src/material.rs: the MATI node codec (generate_property,            *)
(* parse_material_property), the semantic mapper (to_intermediate,         *)
(* parse_instance), the header code of MaterialInstance::generate/parse,   *)
(* the two flag bitsets, and MaterialEntity::parse/generate (MATT, MATB).  *)
(* src/src/wwev.rs: WwiseEvent::parse/generate.                            *)
(* src/src/ores.rs: parse_hashes_ores, serialise_hashes_ores and           *)
(* parse_json_ores.                                                        *)
(*                                                                         *)
(* Representation.  A byte is a number 0..255 and a buffer a sequence of   *)
(* bytes.  A u32 and an f32 are kept as their four little-endian bytes, so *)
(* that every 32-bit pattern is a value of the model.  A String is the     *)
(* sequence of its UTF-8 bytes.  Option<T> is <<>> (None) or <<x>>         *)
(* (Some(x)).  Result<T> is Ok(v) or Err(e).                               *)
(***************************************************************************)
EXTENDS Integers, Sequences, FiniteSets, TLC

VARIABLES
    pc,       \* position of the running harness
    word,     \* flag bitsets: the on-disk u32 handed to from_u32
    cflags,   \* flag bitsets: ClassFlags::from_u32(word), then its as_u32
    iflags,   \* flag bitsets: InstanceFlags::from_u32(word), then its as_u32
    inst,     \* the MaterialInstance handed to generate
    tree,     \* the IntermediateMaterialProperty tree being laid out
    bin,      \* the MATI bytes (generated, then possibly damaged)
    refs,     \* the reference table that goes with bin
    gen,      \* Result of the encode that produced bin
    out,      \* Result of the decode of bin
    edits     \* how many changes were made to the tree or to the bytes

vars == <<pc, word, cflags, iflags, inst, tree, bin, refs, gen, out, edits>>

-----------------------------------------------------------------------------
(* Result, Option *)

Ok(v) == [ok |-> TRUE, val |-> v, err |-> <<>>]
Err(e) == [ok |-> FALSE, val |-> <<>>, err |-> e]

None == <<>>
Some(x) == <<x>>

\* a variable that holds nothing yet
NoValue == <<>>
IsSome(o) == Len(o) = 1

-----------------------------------------------------------------------------
(* Bytes and 32-bit words *)

Byte == 0..255

\* u32::to_le_bytes of a number below 2^31
LeBytes(n) == <<n % 256, (n \div 256) % 256, (n \div 65536) % 256, (n \div 16777216) % 256>>

\* u32::MAX.to_le_bytes()
U32Max == <<255, 255, 255, 255>>

\* a length, offset or index no buffer or table of the model reaches
Huge == 2147483647

\* u32::from_le_bytes(w) as usize; a word of 2^31 or more is only ever compared
\* with lengths, which are far smaller, so it is read as Huge
AsUsize(w) ==
    IF w[4] >= 128 THEN Huge
    ELSE w[1] + 256 * w[2] + 65536 * w[3] + 16777216 * w[4]

\* bit k (0..7) of byte b
Bit(b, k) == (b \div (2 ^ k)) % 2 = 1

\* flags & mask == mask for the one-bit mask 1 << n
TestBit(w, n) == Bit(w[(n \div 8) + 1], n % 8)

B2N(b) == IF b THEN 1 ELSE 0

\* the byte whose bits 0..7 are the eight booleans of s
PackByte(s) ==
    B2N(s[1]) + 2 * B2N(s[2]) + 4 * B2N(s[3]) + 8 * B2N(s[4])
    + 16 * B2N(s[5]) + 32 * B2N(s[6]) + 64 * B2N(s[7]) + 128 * B2N(s[8])

RECURSIVE Zeros(_)
Zeros(n) == IF n <= 0 THEN <<>> ELSE <<0>> \o Zeros(n - 1)

\* no alignment: the bytes as they are
NoAlign(v) == v

\* while v.len() % 16 != 0 { v.push(0) }
Align16(v) == v \o Zeros((16 - (Len(v) % 16)) % 16)

\* val.into_iter().flat_map(|x| x.to_le_bytes()) of a vector of f32 words
RECURSIVE Flatten(_)
Flatten(ws) == IF ws = <<>> THEN <<>> ELSE Head(ws) \o Flatten(Tail(ws))

\* Cursor::read_exact of n bytes at position pos: None when fewer than n remain
ReadExact(d, pos, n) ==
    IF pos <= Len(d) - n THEN Some(SubSeq(d, pos + 1, pos + n)) ELSE None

\* d.iter().skip(p).take_while(|x| **x != 0): the bytes from offset p up to the
\* first zero byte, or up to the end of the buffer when there is none
TakeUntilZero(d, p) ==
    IF p >= Len(d) THEN <<>>
    ELSE LET zeros == {i \in (p + 1)..Len(d) : d[i] = 0}
             end == IF zeros = {} THEN Len(d)
                    ELSE (CHOOSE i \in zeros : \A j \in zeros : i <= j) - 1
         IN SubSeq(d, p + 1, end)

\* whether String::from_utf8 / str::from_utf8 accepts the bytes
RECURSIVE Utf8Valid(_)
Utf8Valid(s) ==
    LET Cont(i) == i <= Len(s) /\ s[i] \in 128..191
    IN IF s = <<>> THEN TRUE
       ELSE IF s[1] < 128 THEN Utf8Valid(Tail(s))
       ELSE IF s[1] \in 194..223 /\ Cont(2) THEN Utf8Valid(SubSeq(s, 3, Len(s)))
       ELSE IF /\ s[1] \in 224..239
               /\ Cont(2) /\ Cont(3)
               /\ (s[1] = 224 => s[2] >= 160)
               /\ (s[1] = 237 => s[2] <= 159)
            THEN Utf8Valid(SubSeq(s, 4, Len(s)))
       ELSE IF /\ s[1] \in 240..244
               /\ Cont(2) /\ Cont(3) /\ Cont(4)
               /\ (s[1] = 240 => s[2] >= 144)
               /\ (s[1] = 244 => s[2] <= 143)
            THEN Utf8Valid(SubSeq(s, 5, Len(s)))
       ELSE FALSE

\* the four bytes at offset p
WordAt(d, p) == SubSeq(d, p + 1, p + 4)

\* x.reverse() of a 4-byte tag
Reverse4(x) == <<x[4], x[3], x[2], x[1]>>

-----------------------------------------------------------------------------
(* f32 arithmetic of the colour conversion, on the bits of the words. *)

\* the f32 (127 - e, fraction) whose fraction is r0 * 2^23 / 255 rounded to
\* nearest; r0 < 255, so the remainder never ties
DivRound(e, q, rem) == LeBytes((127 - e) * 8388608 + (IF 2 * rem > 255 THEN q + 1 ELSE q))

\* b * 2^e lies in [255, 510): the quotient is 1.f * 2^(-e)
DivScaled(b, e) ==
    DivRound(e, ((b * (2 ^ e) - 255) * 8388608) \div 255,
                ((b * (2 ^ e) - 255) * 8388608) % 255)

\* a quotient by 256 instead of 255: b / 256 is exact in f32
U8Div256(b) ==
    IF b = 0 THEN <<0, 0, 0, 0>>
    ELSE LeBytes((119 + (CHOOSE k \in 0..7 : 2 ^ k <= b /\ b < 2 ^ (k + 1))) * 8388608
                 + (b * 2 ^ (23 - (CHOOSE k \in 0..7 : 2 ^ k <= b /\ b < 2 ^ (k + 1)))
                    - 8388608))

\* (b as f32) / 255.0 for a u8 b: the f32 nearest to b/255
U8Div255(b) ==
    IF b = 0 THEN <<0, 0, 0, 0>>
    ELSE DivScaled(b, CHOOSE k \in 0..8 :
                         b * (2 ^ k) >= 255 /\ (k = 0 \/ b * (2 ^ (k - 1)) < 255))

\* a conversion that drops the fraction instead of rounding it
FloorSaturate(m3, k) ==
    IF k <= 0 THEN 255
    ELSE IF k >= 25 THEN 0
    ELSE IF m3 \div (2 ^ k) > 255 THEN 255
    ELSE m3 \div (2 ^ k)

\* the integer nearest to m3 * 2^(-k), ties away from zero, saturated to a u8
RoundSaturate(m3, k) ==
    IF k <= 0 THEN 255
    ELSE IF k >= 25 THEN 0
    ELSE IF (m3 \div (2 ^ k)) + (IF 2 * (m3 % (2 ^ k)) >= 2 ^ k THEN 1 ELSE 0) > 255 THEN 255
    ELSE (m3 \div (2 ^ k)) + (IF 2 * (m3 % (2 ^ k)) >= 2 ^ k THEN 1 ELSE 0)

\* a 24-bit significand that rounding has carried to 2^24 is renormalised
Renormalise(exp, m2, shift) ==
    IF m2 = 16777216
    THEN RoundSaturate(8388608, 150 - (exp + shift + 1))
    ELSE RoundSaturate(m2, 150 - (exp + shift))

\* the significand m1 with the dropped bits rem is rounded to nearest, ties to even
RoundEven(exp, m1, rem, half, shift) ==
    Renormalise(exp, IF rem > half \/ (rem = half /\ m1 % 2 = 1) THEN m1 + 1 ELSE m1, shift)

\* the 32-bit product thi * 256 + tlo of the significand and 255 is cut to 24 bits
Normalise(exp, thi, tlo) ==
    IF thi >= 8388608
    THEN RoundEven(exp, thi, tlo, 128, 8)
    ELSE RoundEven(exp, 2 * thi + (tlo \div 128), tlo % 128, 64, 7)

\* m * 255 for the significand m of a normal f32
Times255(exp, m) ==
    Normalise(exp, 255 * (m \div 256) + ((255 * (m % 256)) \div 256), (255 * (m % 256)) % 256)

\* the f32 of sign, exponent and fraction times 255.0, rounded, as u8
MulRound(negative, exp, frac) ==
    IF exp = 255 THEN (IF frac = 0 /\ ~negative THEN 255 ELSE 0)
    ELSE IF exp = 0 \/ negative THEN 0
    ELSE Times255(exp, 8388608 + frac)

\* ((c * 255.0).round() as u8) for an f32 c: the product rounded to f32 (ties to
\* even), then to the nearest integer (ties away from zero), then saturated to
\* 0..255 with NaN giving 0
MulRoundU8(c) ==
    MulRound(c[4] >= 128,
             (c[4] % 128) * 2 + (c[3] \div 128),
             (c[3] % 128) * 65536 + c[2] * 256 + c[1])

\* one digit of format!("{:x}")
HexDigit(n) == IF n < 10 THEN 48 + n ELSE 87 + n

\* format!("{:0>2x}", b) for a u8 b
Hex2(b) == <<HexDigit(b \div 16), HexDigit(b % 16)>>

\* the value of a character as a base-16 digit, -1 when it is none
HexVal(c) ==
    IF c \in 48..57 THEN c - 48
    ELSE IF c \in 97..102 THEN c - 87
    ELSE IF c \in 65..70 THEN c - 55
    ELSE -1

\* u8::from_str_radix(s, 16) for a string of at most two characters: an optional
\* '+' and then digits; a lone sign, an empty string or a non-digit is an error
u8_from_str_radix(s) ==
    LET digits == IF Len(s) > 1 /\ s[1] = 43 THEN Tail(s) ELSE s
    IN IF s = <<>> \/ (\E i \in 1..Len(digits) : HexVal(digits[i]) < 0)
       THEN Err([e |-> "InvalidHex", a |-> <<s>>])
       ELSE IF Len(digits) = 1 THEN Ok(HexVal(digits[1]))
       ELSE Ok(16 * HexVal(digits[1]) + HexVal(digits[2]))

\* value.chars().skip(n).take(2).collect::<String>() (the strings of the model
\* are ASCII, one byte a character)
SkipTake2(value, n) == SubSeq(value, n + 1, IF Len(value) < n + 2 THEN Len(value) ELSE n + 2)

-----------------------------------------------------------------------------
(* Enumerations: Display and FromStr. *)

MaterialTypeStr ==
    [Standard |-> <<83, 116, 97, 110, 100, 97, 114, 100>>,
     StandardLinked |-> <<83, 116, 97, 110, 100, 97, 114, 100, 76, 105, 110, 107, 101, 100>>,
     StandardWeighted |-> <<83, 116, 97, 110, 100, 97, 114, 100, 87, 101, 105, 103, 104, 116, 101, 100>>,
     SpriteParticleAO |-> <<83, 112, 114, 105, 116, 101, 80, 97, 114, 116, 105, 99, 108, 101, 95, 65, 79>>,
     SpriteParticleVelocity |-> <<83, 112, 114, 105, 116, 101, 80, 97, 114, 116, 105, 99, 108, 101, 86, 101, 108, 111, 99, 105, 116, 121>>]

CullingModeStr ==
    [DontCare |-> <<68, 111, 110, 116, 67, 97, 114, 101>>,
     OneSided |-> <<79, 110, 101, 83, 105, 100, 101, 100>>,
     TwoSided |-> <<84, 119, 111, 83, 105, 100, 101, 100>>]

BlendModeStr ==
    [Add |-> <<65, 68, 68>>,
     Sub |-> <<83, 85, 66>>,
     Trans |-> <<84, 82, 65, 78, 83>>,
     TransOnOpaque |-> <<84, 82, 65, 78, 83, 95, 79, 78, 95, 79, 80, 65, 81, 85, 69>>,
     Opaque |-> <<79, 80, 65, 81, 85, 69>>,
     TransPremultipliedAlpha |-> <<84, 82, 65, 78, 83, 95, 80, 82, 69, 77, 85, 76, 84, 73, 80, 76, 73, 69, 68, 95, 65, 76, 80, 72, 65>>]

\* FromStr against one of the tables: the variant, or the error named
FromStr(table, s, error) ==
    IF \E v \in DOMAIN table : table[v] = s
    THEN Ok(CHOOSE v \in DOMAIN table : table[v] = s)
    ELSE Err([e |-> error, a |-> <<s>>])

MaterialType_from_str(s) == FromStr(MaterialTypeStr, s, "InvalidMaterialType")
CullingMode_from_str(s) == FromStr(CullingModeStr, s, "InvalidCullingMode")
BlendMode_from_str(s) == FromStr(BlendModeStr, s, "InvalidBlendMode")

\* "RenderState"
RenderStateName == <<82, 101, 110, 100, 101, 114, 83, 116, 97, 116, 101>>

-----------------------------------------------------------------------------
(* Flag bitsets *)

ClassFlags_from_u32(flags) ==
    [reflection_2d |-> TestBit(flags, 0),
     refraction_2d |-> TestBit(flags, 1),
     lighting |-> TestBit(flags, 2),
     emissive |-> TestBit(flags, 3),
     discard |-> TestBit(flags, 4),
     lm_skin |-> TestBit(flags, 5),
     prim_standard |-> TestBit(flags, 6),
     prim_linked |-> TestBit(flags, 7),
     prim_weighted |-> TestBit(flags, 8),
     dof_override |-> TestBit(flags, 9),
     uses_default_vs |-> TestBit(flags, 10),
     uses_sprite_sa_vs |-> TestBit(flags, 11),
     uses_sprite_ao_vs |-> TestBit(flags, 12),
     alpha |-> TestBit(flags, 13),
     uses_simple_shader |-> TestBit(flags, 14),
     disable_instancing |-> TestBit(flags, 15),
     lm_hair |-> TestBit(flags, 16),
     sample_lighting |-> TestBit(flags, 17),
     horizon_mapping |-> TestBit(flags, 18),
     unknown_1 |-> TestBit(flags, 19),
     unknown_2 |-> TestBit(flags, 20),
     unknown_3 |-> TestBit(flags, 21)]

ClassFlags_as_u32(self) ==
    <<PackByte(<<self.reflection_2d, self.refraction_2d, self.lighting, self.emissive,
                 self.discard, self.lm_skin, self.prim_standard, self.prim_linked>>),
      PackByte(<<self.prim_weighted, self.dof_override, self.uses_default_vs,
                 self.uses_sprite_sa_vs, self.uses_sprite_ao_vs, self.alpha,
                 self.uses_simple_shader, self.disable_instancing>>),
      PackByte(<<self.lm_hair, self.sample_lighting, self.horizon_mapping,
                 self.unknown_1, self.unknown_2, self.unknown_3, FALSE, FALSE>>),
      0>>

InstanceFlags_from_u32(flags) ==
    [opaque_emissive |-> TestBit(flags, 0),
     trans_emissive |-> TestBit(flags, 1),
     trans_add_emissive |-> TestBit(flags, 2),
     opaque_lit |-> TestBit(flags, 3),
     trans_lit |-> TestBit(flags, 4),
     decal |-> TestBit(flags, 5),
     refractive |-> TestBit(flags, 6),
     lm_skin |-> TestBit(flags, 7),
     lm_hair |-> TestBit(flags, 8),
     force_emissive |-> TestBit(flags, 9),
     disable_shader_lod |-> TestBit(flags, 10),
     discard |-> TestBit(flags, 11),
     decal_emissive |-> TestBit(flags, 12),
     water_clipping |-> TestBit(flags, 13),
     sample_lighting |-> TestBit(flags, 14),
     exclude_global_shadows |-> TestBit(flags, 15)]

InstanceFlags_as_u32(self) ==
    <<PackByte(<<self.opaque_emissive, self.trans_emissive, self.trans_add_emissive,
                 self.opaque_lit, self.trans_lit, self.decal, self.refractive,
                 self.lm_skin>>),
      PackByte(<<self.lm_hair, self.force_emissive, self.disable_shader_lod,
                 self.discard, self.decal_emissive, self.water_clipping,
                 self.sample_lighting, self.exclude_global_shadows>>),
      0,
      0>>

-----------------------------------------------------------------------------
(* IntermediateMaterialProperty.                                           *)
(* A node is [t |-> variant, v |-> payload]: a u32 word for the integer    *)
(* variants, an f32 word for the float variants, a String for the string   *)
(* variants, a sequence of nodes for the nested variants, an               *)
(* Option<RuntimeID> for TextureID and a FloatVal for Value.               *)

Node(t, v) == [t |-> t, v |-> v]

\* FloatVal
Single(f) == [fk |-> "Single", fv |-> f]
Vector(fs) == [fk |-> "Vector", fv |-> fs]

\* the 4-character tags, as the bytes of their characters
TagBytes ==
    [AREF |-> <<65, 82, 69, 70>>,
     ATST |-> <<65, 84, 83, 84>>,
     BENA |-> <<66, 69, 78, 65>>,
     DBDE |-> <<68, 66, 68, 69>>,
     DBEE |-> <<68, 66, 69, 69>>,
     DBNE |-> <<68, 66, 78, 69>>,
     DBRE |-> <<68, 66, 82, 69>>,
     DBSE |-> <<68, 66, 83, 69>>,
     ENAB |-> <<69, 78, 65, 66>>,
     ZBIA |-> <<90, 66, 73, 65>>,
     FENA |-> <<70, 69, 78, 65>>,
     BMOD |-> <<66, 77, 79, 68>>,
     CULL |-> <<67, 85, 76, 76>>,
     NAME |-> <<78, 65, 77, 69>>,
     TAGS |-> <<84, 65, 71, 83>>,
     TILU |-> <<84, 73, 76, 85>>,
     TILV |-> <<84, 73, 76, 86>>,
     TYPE |-> <<84, 89, 80, 69>>,
     BIND |-> <<66, 73, 78, 68>>,
     COLO |-> <<67, 79, 76, 79>>,
     COL4 |-> <<67, 79, 76, 52>>,
     FLTV |-> <<70, 76, 84, 86>>,
     INST |-> <<73, 78, 83, 84>>,
     RSTA |-> <<82, 83, 84, 65>>,
     TEXT |-> <<84, 69, 88, 84>>,
     OPAC |-> <<79, 80, 65, 67>>,
     ZOFF |-> <<90, 79, 70, 70>>,
     SSBW |-> <<83, 83, 66, 87>>,
     SSVB |-> <<83, 83, 86, 66>>,
     SSVG |-> <<83, 83, 86, 71>>,
     SSVR |-> <<83, 83, 86, 82>>,
     TXID |-> <<84, 88, 73, 68>>,
     VALU |-> <<86, 65, 76, 85>>]

\* the `name` each match of generate_property gives its variants
IntName ==
    [AlphaReference |-> "AREF", AlphaTestEnabled |-> "ATST", BlendEnabled |-> "BENA",
     DecalBlendDiffuse |-> "DBDE", DecalBlendEmission |-> "DBEE",
     DecalBlendNormal |-> "DBNE", DecalBlendRoughness |-> "DBRE",
     DecalBlendSpecular |-> "DBSE", Enabled |-> "ENAB", ZBias |-> "ZBIA",
     FogEnabled |-> "FENA"]

StringName ==
    [BlendMode |-> "BMOD", CullingMode |-> "CULL", Name |-> "NAME", Tags |-> "TAGS",
     TilingU |-> "TILU", TilingV |-> "TILV", Type |-> "TYPE"]

NestedName ==
    [Binder |-> "BIND", Color |-> "COLO", Color4 |-> "COL4", FloatValue |-> "FLTV",
     Instance |-> "INST", RenderState |-> "RSTA", Texture |-> "TEXT"]

FloatName ==
    [Opacity |-> "OPAC", ZOffset |-> "ZOFF", SubsurfaceValue |-> "SSBW",
     SubsurfaceBlue |-> "SSVB", SubsurfaceGreen |-> "SSVG", SubsurfaceRed |-> "SSVR"]

\* name.as_bytes() reversed
TagField(name) == Reverse4(TagBytes[name])

\* ResourceReference
ResourceReference(resource, flags) == [resource |-> resource, flags |-> flags]

\* ReferenceFlags { reference_type: Normal, acquired: false, language_code: 0b0001_1111 }
NormalFlags == "Normal/false/0b00011111"

\* ReferenceFlags::default()
DefaultFlags == "default"

-----------------------------------------------------------------------------
(* Node codec, encode.  generate_property returns the 16-byte record, the  *)
(* trailing resources block (an Option) and the reference table as the     *)
(* call leaves it.                                                         *)

RECURSIVE generate_property(_, _, _)
RECURSIVE generate_children(_, _, _, _, _, _)

\* one turn of the loop: the record and the resources of child i are appended
extend_children(all_resources_offset, val, i, records, resources, g) ==
    generate_children(all_resources_offset, g.refs, val, i + 1,
                      records \o g.data,
                      IF IsSome(g.resources)
                      THEN resources \o g.resources[1]
                      ELSE resources)

\* the `for sub_property in val` loop of a nested node, from child i on
generate_children(all_resources_offset, mati_references, val, i, records, resources) ==
    IF i > Len(val)
    THEN [records |-> records, resources |-> resources, refs |-> mati_references]
    ELSE extend_children(all_resources_offset, val, i, records, resources,
                         generate_property(all_resources_offset + Len(resources),
                                           mati_references, val[i]))

\* a nested record whose pointer is the start of its block, not of its records
nested_record_unshifted(all_resources_offset, property, c) ==
    [data |-> TagField(NestedName[property.t])
              \o LeBytes(all_resources_offset)
              \o LeBytes(Len(property.v)) \o <<3, 0, 0, 0>>,
     resources |-> Some(Align16(c.resources \o c.records)),
     refs |-> c.refs]

\* the record of a nested node, after the loop over its children c
nested_record(all_resources_offset, property, c) ==
    [data |-> TagField(NestedName[property.t])
              \o LeBytes(all_resources_offset + Len(c.resources))
              \o LeBytes(Len(property.v)) \o <<3, 0, 0, 0>>,
     resources |-> Some(Align16(c.resources \o c.records)),
     refs |-> c.refs]

\* a TXID record that holds the length of the table as its index
texture_record_next(pushed) ==
    [data |-> TagField("TXID") \o LeBytes(Len(pushed))
              \o <<1, 0, 0, 0>> \o <<2, 0, 0, 0>>,
     resources |-> None,
     refs |-> pushed]

\* the record of a TXID node holding Some: its reference is pushed
texture_record(pushed) ==
    [data |-> TagField("TXID") \o LeBytes(Len(pushed) - 1)
              \o <<1, 0, 0, 0>> \o <<2, 0, 0, 0>>,
     resources |-> None,
     refs |-> pushed]

generate_property(all_resources_offset, mati_references, property) ==
    CASE property.t \in DOMAIN IntName ->
           [data |-> TagField(IntName[property.t]) \o property.v
                     \o <<1, 0, 0, 0>> \o <<2, 0, 0, 0>>,
            resources |-> None,
            refs |-> mati_references]
      [] property.t \in DOMAIN StringName ->
           [data |-> TagField(StringName[property.t]) \o LeBytes(all_resources_offset)
                     \o LeBytes(Len(property.v) + 1) \o <<1, 0, 0, 0>>,
            resources |-> Some(Align16(property.v \o <<0>>)),
            refs |-> mati_references]
      [] property.t \in DOMAIN NestedName ->
           nested_record(all_resources_offset, property,
                         generate_children(all_resources_offset, mati_references,
                                           property.v, 1, <<>>, <<>>))
      [] property.t \in DOMAIN FloatName ->
           [data |-> TagField(FloatName[property.t]) \o property.v
                     \o <<1, 0, 0, 0>> \o <<0, 0, 0, 0>>,
            resources |-> None,
            refs |-> mati_references]
      [] property.t = "TextureID" ->
           IF IsSome(property.v)
           THEN texture_record(Append(mati_references,
                                      ResourceReference(property.v[1], NormalFlags)))
           ELSE [data |-> TagField("TXID") \o U32Max
                          \o <<1, 0, 0, 0>> \o <<2, 0, 0, 0>>,
                 resources |-> None,
                 refs |-> mati_references]
      [] property.t = "Value" /\ property.v.fk = "Single" ->
           [data |-> TagField("VALU") \o property.v.fv
                     \o <<1, 0, 0, 0>> \o <<0, 0, 0, 0>>,
            resources |-> None,
            refs |-> mati_references]
      [] property.t = "Value" /\ property.v.fk = "Vector" ->
           [data |-> TagField("VALU") \o LeBytes(all_resources_offset)
                     \o LeBytes(Len(property.v.fv)) \o <<0, 0, 0, 0>>,
            resources |-> Some(Align16(Flatten(property.v.fv))),
            refs |-> mati_references]

-----------------------------------------------------------------------------
(* Node codec, decode. *)

\* MaterialError: the variant and what it carries
MaterialError(e, a) == [e |-> e, a |-> a]

\* an io::Error of Cursor::read_exact (UnexpectedEof), as MaterialError::Seek
SeekError == MaterialError("Seek", <<>>)

\* the recursion of parse_material_property has no bound of its own: past
\* MaxDepth nested calls the model reports the call stack as exhausted
MaxDepth == 6

StackExhausted == MaterialError("stack overflow", <<>>)

\* the match arms of parse_material_property: tag to variant, by kind
ParseFloat ==
    [OPAC |-> "Opacity", ZOFF |-> "ZOffset", SSBW |-> "SubsurfaceValue",
     SSVB |-> "SubsurfaceBlue", SSVG |-> "SubsurfaceGreen", SSVR |-> "SubsurfaceRed"]

ParseString ==
    [BMOD |-> "BlendMode", CULL |-> "CullingMode", NAME |-> "Name", TAGS |-> "Tags",
     TILU |-> "TilingU", TILV |-> "TilingV", TYPE |-> "Type"]

ParseInt ==
    [AREF |-> "AlphaReference", ATST |-> "AlphaTestEnabled", BENA |-> "BlendEnabled",
     DBDE |-> "DecalBlendDiffuse", DBEE |-> "DecalBlendEmission",
     DBNE |-> "DecalBlendNormal", DBRE |-> "DecalBlendRoughness",
     DBSE |-> "DecalBlendSpecular", ENAB |-> "Enabled", FENA |-> "FogEnabled",
     ZBIA |-> "ZBias"]

ParseNested ==
    [BIND |-> "Binder", COLO |-> "Color", COL4 |-> "Color4", FLTV |-> "FloatValue",
     INST |-> "Instance", RSTA |-> "RenderState", TEXT |-> "Texture"]

\* name.as_ref() matched against the string literals of one match: the literal
\* that equals the four characters read, or "" when the match falls to `_`
MatchName(table, name) ==
    IF \E t \in DOMAIN table : TagBytes[t] = name
    THEN CHOOSE t \in DOMAIN table : TagBytes[t] = name
    ELSE ""

\* the `for _ in 0..count` loop that reads the floats of a vector
RECURSIVE read_floats(_, _, _, _, _)
read_floats(mati_data, pos, count, i, value) ==
    IF i >= count THEN Ok(value)
    ELSE LET x == ReadExact(mati_data, pos, 4)
         IN IF IsSome(x)
            THEN read_floats(mati_data, pos + 4, count, i + 1, Append(value, x[1]))
            ELSE Err(SeekError)

RECURSIVE parse_material_property(_, _, _, _)
RECURSIVE parse_children(_, _, _, _, _, _, _)

\* the `for _ in 0..count` loop that reads the children of a nested node
parse_children(mati_data, mati_references, pos, count, i, values, depth) ==
    IF i >= count THEN Ok(values)
    ELSE LET c == parse_material_property(mati_data, mati_references, pos, depth)
         IN IF c.ok
            THEN parse_children(mati_data, mati_references, pos + 16, count, i + 1,
                                Append(values, c.val), depth)
            ELSE c

parse_material_property(mati_data, mati_references, start, depth) ==
    IF depth > MaxDepth THEN Err(StackExhausted)
    ELSE IF ~IsSome(ReadExact(mati_data, start, 16)) THEN Err(SeekError)
    ELSE
    LET name == Reverse4(SubSeq(mati_data, start + 1, start + 4))
        data == SubSeq(mati_data, start + 5, start + 8)
        count == AsUsize(SubSeq(mati_data, start + 9, start + 12))
        \* u32::from_le_bytes(..) as u8: the low byte of the kind field
        ty == mati_data[start + 13]
        IncorrectType == Err(MaterialError("IncorrectType", <<name, ty>>))
    IN
    CASE ty = 0 ->
           IF count = 1
           THEN IF MatchName(ParseFloat, name) # ""
                THEN Ok(Node(ParseFloat[MatchName(ParseFloat, name)], data))
                ELSE IF name = TagBytes["VALU"] THEN Ok(Node("Value", Single(data)))
                ELSE IncorrectType
           ELSE LET value == read_floats(mati_data, AsUsize(data), count, 0, <<>>)
                IN IF ~value.ok THEN value
                   ELSE IF name = TagBytes["VALU"]
                   THEN Ok(Node("Value", Vector(value.val)))
                   ELSE IncorrectType
      [] ty = 1 ->
           LET value == TakeUntilZero(mati_data, AsUsize(data))
           IN IF ~Utf8Valid(value) THEN Err(MaterialError("InvalidString", <<>>))
              ELSE IF MatchName(ParseString, name) # ""
              THEN Ok(Node(ParseString[MatchName(ParseString, name)], value))
              ELSE IncorrectType
      [] ty = 2 ->
           IF MatchName(ParseInt, name) # ""
           THEN Ok(Node(ParseInt[MatchName(ParseInt, name)], data))
           ELSE IF name = TagBytes["TXID"]
           THEN IF data # U32Max
                THEN IF AsUsize(data) < Len(mati_references)
                     THEN Ok(Node("TextureID",
                                  Some(mati_references[AsUsize(data) + 1].resource)))
                     ELSE Err(MaterialError("InvalidDependency", <<data>>))
                ELSE Ok(Node("TextureID", None))
           ELSE IncorrectType
      [] ty = 3 ->
           LET values == parse_children(mati_data, mati_references, AsUsize(data),
                                        count, 0, <<>>, depth + 1)
           IN IF ~values.ok THEN values
              ELSE IF MatchName(ParseNested, name) # ""
              THEN Ok(Node(ParseNested[MatchName(ParseNested, name)], values.val))
              ELSE IncorrectType
      [] OTHER -> Err(MaterialError("UnrecognisedEntryType", <<ty>>))

-----------------------------------------------------------------------------
(* Semantic mapper, encode direction.                                      *)
(* MaterialPropertyValue is [k |-> variant, enabled, value, ...]; the      *)
(* properties IndexMap is the sequence of its [name, value] entries in     *)
(* insertion order.                                                        *)

\* if b { 1 } else { 0 }, as a u32
BoolWord(b) == IF b THEN <<1, 0, 0, 0>> ELSE <<0, 0, 0, 0>>

\* `if let Some(x) = field { props.push(Variant(x)) }`
PushSome(field, t) == IF IsSome(field) THEN <<Node(t, field[1])>> ELSE <<>>

\* the same for an Option<bool>, pushed as 1 or 0
PushSomeBool(field, t) == IF IsSome(field) THEN <<Node(t, BoolWord(field[1]))>> ELSE <<>>

\* the RenderState node of to_intermediate
render_state_to_intermediate(rs) ==
    Node("RenderState",
         <<Node("Name", RenderStateName)>>
         \o PushSomeBool(rs.enabled, "Enabled")
         \o PushSomeBool(rs.blend_enabled, "BlendEnabled")
         \o (IF IsSome(rs.blend_mode)
             THEN <<Node("BlendMode", BlendModeStr[rs.blend_mode[1]])>>
             ELSE <<>>)
         \o PushSome(rs.decal_blend_diffuse, "DecalBlendDiffuse")
         \o PushSome(rs.decal_blend_normal, "DecalBlendNormal")
         \o PushSome(rs.decal_blend_specular, "DecalBlendSpecular")
         \o PushSome(rs.decal_blend_roughness, "DecalBlendRoughness")
         \o PushSome(rs.decal_blend_emission, "DecalBlendEmission")
         \o PushSomeBool(rs.alpha_test_enabled, "AlphaTestEnabled")
         \o PushSome(rs.alpha_reference, "AlphaReference")
         \o PushSomeBool(rs.fog_enabled, "FogEnabled")
         \o PushSome(rs.opacity, "Opacity")
         \o <<Node("CullingMode", CullingModeStr[rs.culling_mode])>>
         \o PushSome(rs.z_bias, "ZBias")
         \o PushSome(rs.z_offset, "ZOffset")
         \o PushSome(rs.subsurface_red, "SubsurfaceRed")
         \o PushSome(rs.subsurface_green, "SubsurfaceGreen")
         \o PushSome(rs.subsurface_blue, "SubsurfaceBlue")
         \o PushSome(rs.subsurface_value, "SubsurfaceValue"))

\* Ok of an element put in front of a collected list, or the error of the list
Cons(x, rest) == IF rest.ok THEN Ok(<<x>> \o rest.val) ELSE rest

RECURSIVE colour_channels(_, _, _)

\* one channel c parsed (the `?` of u8::from_str_radix), then the next ones
channel_then(c, value, from, n) ==
    IF ~c.ok THEN c
    ELSE Cons(U8Div255(c.val), colour_channels(value, from + 2, n - 1))

\* the channels of a Colour string from character `from` on, n of them: each
\* u8::from_str_radix(..)? as f32 / 255.0
colour_channels(value, from, n) ==
    IF n = 0 THEN Ok(<<>>)
    ELSE channel_then(u8_from_str_radix(SkipTake2(value, from)), value, from, n)

\* a Colour node that is a Color whatever the number of its channels
colour_node_rgb(t, name, enabled, channels) ==
    IF ~channels.ok THEN channels
    ELSE Ok(Node("Color", <<Node("Name", name),
                            Node("Enabled", BoolWord(enabled)),
                            Node("Value", Vector(channels.val))>>))

\* the Color or Color4 node of a Colour property whose channels are parsed
colour_node(t, name, enabled, channels) ==
    IF ~channels.ok THEN channels
    ELSE Ok(Node(t, <<Node("Name", name),
                      Node("Enabled", BoolWord(enabled)),
                      Node("Value", Vector(channels.val))>>))

\* the closure of to_intermediate that maps one (name, value) entry
property_to_intermediate(name, value) ==
    CASE value.k = "Float" ->
           Ok(Node("FloatValue", <<Node("Name", name),
                                   Node("Enabled", BoolWord(value.enabled)),
                                   Node("Value", Single(value.value))>>))
      [] value.k = "Vector" ->
           Ok(Node("FloatValue", <<Node("Name", name),
                                   Node("Enabled", BoolWord(value.enabled)),
                                   Node("Value", Vector(value.value))>>))
      [] value.k = "Texture" ->
           Ok(Node("Texture", <<Node("Name", name),
                                Node("Enabled", BoolWord(value.enabled)),
                                Node("TextureID", value.value),
                                Node("TilingU", value.tiling_u),
                                Node("TilingV", value.tiling_v),
                                Node("Type", value.texture_type)>>))
      [] value.k = "Colour" ->
           IF Len(value.value) > 7
           THEN colour_node("Color4", name, value.enabled,
                            colour_channels(value.value, 1, 4))
           ELSE colour_node("Color", name, value.enabled,
                            colour_channels(value.value, 1, 3))

RECURSIVE properties_to_intermediate(_, _)

\* entry i mapped (the `?` of the closure), then the entries after it
property_then(p, properties, i) ==
    IF ~p.ok THEN p ELSE Cons(p.val, properties_to_intermediate(properties, i + 1))

\* .map(..).collect::<Result<Vec<_>>>() over the properties, from entry i on
properties_to_intermediate(properties, i) ==
    IF i > Len(properties) THEN Ok(<<>>)
    ELSE property_then(property_to_intermediate(properties[i].name, properties[i].value),
                       properties, i)

\* the Binder node: the RenderState node, then the collected property nodes
binder_node(render_state, props) ==
    IF ~props.ok THEN props
    ELSE Ok(Node("Binder", <<render_state_to_intermediate(render_state)>> \o props.val))

to_intermediate(binder) ==
    binder_node(binder.render_state, properties_to_intermediate(binder.properties, 1))

-----------------------------------------------------------------------------
(* Semantic mapper, decode direction. *)

\* .iter().find_map(..) for one variant: the payload of the first such node
FindMap(nodes, t) ==
    IF \E i \in 1..Len(nodes) : nodes[i].t = t
    THEN Some(nodes[CHOOSE i \in 1..Len(nodes) :
                      nodes[i].t = t /\ \A j \in 1..(i - 1) : nodes[j].t # t].v)
    ELSE None

\* Some(x != 0) of an Option<u32>
NonZero(o) == IF IsSome(o) THEN Some(o[1] # <<0, 0, 0, 0>>) ELSE None

RequiredPropertyNotFound(tag) == Err(MaterialError("RequiredPropertyNotFound", <<tag>>))

\* the blend_mode field: the first BMOD string, if any, parsed
blend_mode(props) ==
    IF IsSome(FindMap(props, "BlendMode"))
    THEN BlendMode_from_str(FindMap(props, "BlendMode")[1])
    ELSE Ok(<<>>)

\* a decoder that substitutes a culling mode for a missing CULL node
culling_mode_or_default(props) ==
    IF IsSome(FindMap(props, "CullingMode"))
    THEN CullingMode_from_str(FindMap(props, "CullingMode")[1])
    ELSE Ok("DontCare")

\* the culling_mode field: the first CULL string parsed, required
culling_mode(props) ==
    IF IsSome(FindMap(props, "CullingMode"))
    THEN CullingMode_from_str(FindMap(props, "CullingMode")[1])
    ELSE RequiredPropertyNotFound("CULL")

\* the RenderState of parse_instance, from the children of the RSTA node
parse_render_state(props) ==
    LET bm == blend_mode(props)
        cm == culling_mode(props)
    IN IF ~bm.ok THEN bm
       ELSE IF ~cm.ok THEN cm
       ELSE Ok([name |-> FindMap(props, "Name"),
                enabled |-> NonZero(FindMap(props, "Enabled")),
                blend_enabled |-> NonZero(FindMap(props, "BlendEnabled")),
                blend_mode |-> IF IsSome(FindMap(props, "BlendMode"))
                               THEN Some(bm.val) ELSE None,
                decal_blend_diffuse |-> FindMap(props, "DecalBlendDiffuse"),
                decal_blend_normal |-> FindMap(props, "DecalBlendNormal"),
                decal_blend_specular |-> FindMap(props, "DecalBlendSpecular"),
                decal_blend_roughness |-> FindMap(props, "DecalBlendRoughness"),
                decal_blend_emission |-> FindMap(props, "DecalBlendEmission"),
                alpha_test_enabled |-> NonZero(FindMap(props, "AlphaTestEnabled")),
                alpha_reference |-> FindMap(props, "AlphaReference"),
                fog_enabled |-> NonZero(FindMap(props, "FogEnabled")),
                opacity |-> FindMap(props, "Opacity"),
                culling_mode |-> cm.val,
                z_bias |-> FindMap(props, "ZBias"),
                z_offset |-> FindMap(props, "ZOffset"),
                subsurface_red |-> FindMap(props, "SubsurfaceRed"),
                subsurface_green |-> FindMap(props, "SubsurfaceGreen"),
                subsurface_blue |-> FindMap(props, "SubsurfaceBlue"),
                subsurface_value |-> FindMap(props, "SubsurfaceValue")])

\* format!("#{:0>2x}..", (value[i] * 255.0).round() as u8, ..)
RECURSIVE format_colour(_)
format_colour(value) ==
    IF value = <<>> THEN <<>> ELSE Hex2(MulRoundU8(Head(value))) \o format_colour(Tail(value))

\* a decoder that formats the channels of a VALU of any length
parse_colour_any(x, channels) ==
    Ok([name |-> FindMap(x, "Name")[1],
        value |-> [k |-> "Colour",
                   enabled |-> FindMap(x, "Enabled")[1] # <<0, 0, 0, 0>>,
                   value |-> <<35>> \o format_colour(
                                IF FindMap(x, "Value")[1].fk = "Vector"
                                THEN FindMap(x, "Value")[1].fv
                                ELSE <<FindMap(x, "Value")[1].fv>>)]])

\* a COLO (channels = 3) or COL4 (channels = 4) child of BIND
parse_colour(x, channels) ==
    LET name == FindMap(x, "Name")
        enabled == FindMap(x, "Enabled")
        value == FindMap(x, "Value")
    IN IF ~IsSome(name) THEN RequiredPropertyNotFound("NAME")
       ELSE IF ~IsSome(enabled) THEN RequiredPropertyNotFound("ENAB")
       ELSE IF ~IsSome(value) THEN RequiredPropertyNotFound("VALU")
       ELSE IF value[1].fk # "Vector" THEN Err(MaterialError("InvalidColor", <<name[1]>>))
       ELSE IF Len(value[1].fv) = channels
       THEN Ok([name |-> name[1],
                value |-> [k |-> "Colour",
                           enabled |-> enabled[1] # <<0, 0, 0, 0>>,
                           value |-> <<35>> \o format_colour(value[1].fv)]])
       ELSE Err(MaterialError("InvalidColor", <<name[1]>>))

\* the closure of parse_instance that maps one child of BIND that is no RSTA
parse_property(x) ==
    CASE x.t = "FloatValue" ->
           LET name == FindMap(x.v, "Name")
               enabled == FindMap(x.v, "Enabled")
               value == FindMap(x.v, "Value")
           IN IF ~IsSome(name) THEN RequiredPropertyNotFound("NAME")
              ELSE IF ~IsSome(enabled) THEN RequiredPropertyNotFound("ENAB")
              ELSE IF ~IsSome(value) THEN RequiredPropertyNotFound("VALU")
              ELSE Ok([name |-> name[1],
                       value |-> [k |-> IF value[1].fk = "Single" THEN "Float" ELSE "Vector",
                                  enabled |-> enabled[1] # <<0, 0, 0, 0>>,
                                  value |-> value[1].fv]])
      [] x.t = "Texture" ->
           LET name == FindMap(x.v, "Name")
               enabled == FindMap(x.v, "Enabled")
               tiling_u == FindMap(x.v, "TilingU")
               tiling_v == FindMap(x.v, "TilingV")
               texture_id == FindMap(x.v, "TextureID")
               texture_type == FindMap(x.v, "Type")
           IN IF ~IsSome(name) THEN RequiredPropertyNotFound("NAME")
              ELSE IF ~IsSome(enabled) THEN RequiredPropertyNotFound("ENAB")
              ELSE IF ~IsSome(tiling_u) THEN RequiredPropertyNotFound("TILU")
              ELSE IF ~IsSome(tiling_v) THEN RequiredPropertyNotFound("TILV")
              ELSE IF ~IsSome(texture_id) THEN RequiredPropertyNotFound("TXID")
              ELSE IF ~IsSome(texture_type) THEN RequiredPropertyNotFound("TYPE")
              ELSE Ok([name |-> name[1],
                       value |-> [k |-> "Texture",
                                  enabled |-> enabled[1] # <<0, 0, 0, 0>>,
                                  value |-> texture_id[1],
                                  tiling_u |-> tiling_u[1],
                                  tiling_v |-> tiling_v[1],
                                  texture_type |-> texture_type[1]]])
      [] x.t = "Color" -> parse_colour(x.v, 3)
      [] x.t = "Color4" -> parse_colour(x.v, 4)
      [] OTHER -> Err(MaterialError("PropertyAtWrongLevel", <<x>>))

\* a collection that keeps every entry, also one whose name is already there
IndexMapAppend(map, entry) == Append(map, entry)

\* IndexMap::insert: a key already present keeps its place and takes the value
IndexMapInsert(map, entry) ==
    IF \E i \in 1..Len(map) : map[i].name = entry.name
    THEN [i \in 1..Len(map) |-> IF map[i].name = entry.name THEN entry ELSE map[i]]
    ELSE Append(map, entry)

RECURSIVE parse_properties(_, _, _)

\* a decoder that drops the children of BIND it cannot map
insert_or_drop(p, binder, i, map) ==
    IF ~p.ok THEN parse_properties(binder, i + 1, map)
    ELSE parse_properties(binder, i + 1, IndexMapInsert(map, p.val))

\* child i mapped (the `?` of the closure) and inserted, then the children after it
insert_property(p, binder, i, map) ==
    IF ~p.ok THEN p
    ELSE parse_properties(binder, i + 1, IndexMapInsert(map, p.val))

\* a decoder that maps every child of BIND, the RSTA nodes included
RECURSIVE parse_properties_unfiltered(_, _, _)
parse_properties_unfiltered(binder, i, map) ==
    IF i > Len(binder) THEN Ok(map)
    ELSE IF ~parse_property(binder[i]).ok THEN parse_property(binder[i])
    ELSE parse_properties_unfiltered(binder, i + 1,
                                     IndexMapInsert(map, parse_property(binder[i]).val))

\* .filter(not RenderState).map(..).collect::<Result<IndexMap>>(), from child i on
parse_properties(binder, i, map) ==
    IF i > Len(binder) THEN Ok(map)
    ELSE IF binder[i].t = "RenderState" THEN parse_properties(binder, i + 1, map)
    ELSE insert_property(parse_property(binder[i]), binder, i, map)

\* the tuple parse_instance returns, once the properties are collected
instance_tuple(name, tags, render_state, map) ==
    IF ~map.ok THEN map
    ELSE Ok([name |-> name,
             tags |-> tags,
             binder |-> [render_state |-> render_state, properties |-> map.val]])

\* the Binder: the render state built (its `?`s), then the properties
binder_properties(name, tags, binder, render_state) ==
    IF ~render_state.ok THEN render_state
    ELSE instance_tuple(name, tags, render_state.val, parse_properties(binder, 1, <<>>))

\* the Binder: the RSTA child of BIND is looked up
binder_render_state(name, tags, binder, props) ==
    IF ~IsSome(props) THEN RequiredPropertyNotFound("RSTA")
    ELSE binder_properties(name, tags, binder, parse_render_state(props[1]))

\* the three elements of the tuple, in order: NAME, TAGS, then BIND
instance_children(name, tags, binder) ==
    IF ~IsSome(name) THEN RequiredPropertyNotFound("NAME")
    ELSE IF ~IsSome(tags) THEN RequiredPropertyNotFound("TAGS")
    ELSE IF ~IsSome(binder) THEN RequiredPropertyNotFound("BIND")
    ELSE binder_render_state(name[1], tags[1], binder[1],
                             FindMap(binder[1], "RenderState"))

parse_instance(instance) ==
    IF instance.t # "Instance" THEN Err(MaterialError("InstanceNotTopLevel", <<>>))
    ELSE instance_children(FindMap(instance.v, "Name"),
                           FindMap(instance.v, "Tags"),
                           FindMap(instance.v, "Binder"))

-----------------------------------------------------------------------------
(* MaterialInstance::generate and MaterialInstance::parse.                 *)
(* ResourceMetadata is kept as [id, references]; the resource type and the *)
(* compressed and scrambled marks are constants of the MATI type.          *)

\* the second header is appended, the header offset is written at offset 0
layout_header(self, instance_offset, type_offset, mati, refs1, refs2) ==
    [mati |-> LeBytes(Len(mati)) \o SubSeq(mati, 5, Len(mati))
              \o LeBytes(type_offset)
              \o (IF IsSome(self.class) THEN LeBytes(Len(refs1) - 1) ELSE U32Max)
              \o ClassFlags_as_u32(self.class_flags)
              \o InstanceFlags_as_u32(self.instance_flags)
              \o (IF IsSome(self.descriptor) THEN LeBytes(Len(refs2) - 1) ELSE U32Max)
              \o Zeros(8)
              \o LeBytes(instance_offset)
              \o LeBytes(3)
              \o Zeros(12),
     metadata |-> [id |-> self.id, references |-> refs2]]

\* the references of the descriptor, after that of the class
layout_references(self, instance_offset, type_offset, mati, refs1) ==
    layout_header(self, instance_offset, type_offset, mati, refs1,
                  IF IsSome(self.descriptor)
                  THEN Append(refs1, ResourceReference(self.descriptor[1], NormalFlags))
                  ELSE refs1)

\* the type name and its alignment, after the root record
layout_type(self, instance_offset, mati, mati_references) ==
    layout_references(self, instance_offset, Len(mati),
                      Align16(mati \o MaterialTypeStr[self.material_type] \o <<0>>),
                      IF IsSome(self.class)
                      THEN Append(mati_references,
                                  ResourceReference(self.class[1], DefaultFlags))
                      ELSE mati_references)

\* the root record, after the resources of the tree
layout_instance(self, mati, instance_data, mati_references) ==
    layout_type(self, Len(mati), mati \o instance_data, mati_references)

\* the resources of the tree, after the aligned placeholder
layout_resources(self, mati, g) ==
    layout_instance(self, mati \o g.resources[1], g.data, g.refs)

\* the tree is generated at the end of the aligned placeholder
layout_tree(self, mati, instance) ==
    layout_resources(self, mati, generate_property(Len(mati), <<>>, instance))

\* MaterialInstance::generate from the point where the Instance node is built:
\* the layout of the node tree, the type name and the second header
generate_layout(self, instance) == layout_tree(self, Align16(LeBytes(0)), instance)

\* the `?` of to_intermediate, then the layout of the Instance node
generate_instance(self, binder) ==
    IF ~binder.ok THEN binder
    ELSE Ok(generate_layout(self, Node("Instance", <<Node("Name", self.name),
                                                     Node("Tags", self.tags),
                                                     binder.val>>)))

MaterialInstance_generate(self) == generate_instance(self, to_intermediate(self.binder))

\* references.get(index as usize).map(|x| x.resource)
GetResource(references, index) ==
    IF AsUsize(index) < Len(references)
    THEN Some(references[AsUsize(index) + 1].resource)
    ELSE None

\* the instance, once the material type string is parsed (its `?`)
parse_type(mati_data, mati_metadata, at, parsed, type) ==
    IF ~type.ok THEN type
    ELSE Ok([id |-> mati_metadata.id,
             name |-> parsed.name,
             material_type |-> type.val,
             tags |-> parsed.tags,
             class |-> GetResource(mati_metadata.references, WordAt(mati_data, at + 4)),
             descriptor |-> GetResource(mati_metadata.references, WordAt(mati_data, at + 16)),
             class_flags |-> ClassFlags_from_u32(WordAt(mati_data, at + 8)),
             instance_flags |-> InstanceFlags_from_u32(WordAt(mati_data, at + 12)),
             binder |-> parsed.binder])

\* parse_instance(..)? of the root node, then the fields of Self
parse_mapped(mati_data, mati_metadata, at, parsed) ==
    IF ~parsed.ok THEN parsed
    ELSE parse_type(mati_data, mati_metadata, at, parsed.val,
                    MaterialType_from_str(
                        TakeUntilZero(mati_data, AsUsize(WordAt(mati_data, at)))))

\* parse_material_property(..)? at the instance offset
parse_root(mati_data, mati_metadata, at, node) ==
    IF ~node.ok THEN node
    ELSE parse_mapped(mati_data, mati_metadata, at, parse_instance(node.val))

\* the 32 bytes read at the second header, one field after the other, with the
\* type name read between the first and the second
parse_header(mati_data, mati_metadata, at) ==
    IF ~IsSome(ReadExact(mati_data, at, 4)) THEN Err(SeekError)
    ELSE IF ~Utf8Valid(TakeUntilZero(mati_data, AsUsize(WordAt(mati_data, at))))
    THEN Err(MaterialError("InvalidString", <<>>))
    ELSE IF ~IsSome(ReadExact(mati_data, at, 32)) THEN Err(SeekError)
    ELSE parse_root(mati_data, mati_metadata, at,
                    parse_material_property(mati_data, mati_metadata.references,
                                            AsUsize(WordAt(mati_data, at + 28)), 1))

\* the header offset read at offset 0
parse_header_offset(mati_data, mati_metadata, header_offset) ==
    IF ~IsSome(header_offset) THEN Err(SeekError)
    ELSE parse_header(mati_data, mati_metadata, AsUsize(header_offset[1]))

MaterialInstance_parse(mati_data, mati_metadata) ==
    parse_header_offset(mati_data, mati_metadata, ReadExact(mati_data, 0, 4))

-----------------------------------------------------------------------------
(* The values the harnesses draw from. *)

\* f32 words: 0.0, 0.25, 0.5, 1.0, -2.0
F0 == <<0, 0, 0, 0>>
FQuarter == <<0, 0, 128, 62>>
FHalf == <<0, 0, 0, 63>>
FOne == <<0, 0, 128, 63>>
FMinusTwo == <<0, 0, 0, 192>>

\* the longest list of properties of an instance
MaxProps == 2

\* the longest Vector property
MaxVector == 5

\* vec![0.25; n] with the first element 1.0
VectorOf(n) == [i \in 1..n |-> IF i = 1 THEN FOne ELSE FQuarter]

\* a MaterialPropertyValue of every variant; the Vector lengths run from 0 to
\* MaxVector, the Colour strings are "#ff8000" and "#0080ff40"
PropertyValues ==
    {[k |-> "Float", enabled |-> TRUE, value |-> FHalf]}
    \cup {[k |-> "Vector", enabled |-> FALSE, value |-> VectorOf(n)] : n \in 0..MaxVector}
    \cup {[k |-> "Texture", enabled |-> TRUE, value |-> id, tiling_u |-> <<>>,
           tiling_v |-> <<49>>, texture_type |-> <<50, 68>>] : id \in {None, Some(7)}}
    \cup {[k |-> "Colour", enabled |-> TRUE, value |-> c] :
            c \in {<<35, 102, 102, 56, 48, 48, 48>>,
                   <<35, 48, 48, 56, 48, 102, 102, 52, 48>>}}

\* the property names: "a", "b", ... by place, so that the keys of a map differ
PropertyName(i) == <<96 + i>>

\* the IndexMaps of up to MaxProps entries
PropertyMaps ==
    UNION {{[i \in 1..n |-> [name |-> PropertyName(i), value |-> f[i]]] :
              f \in [1..n -> PropertyValues]} : n \in 0..MaxProps}

\* a RenderState with every optional field None
RenderStateNone ==
    [name |-> None, enabled |-> None, blend_enabled |-> None, blend_mode |-> None,
     decal_blend_diffuse |-> None, decal_blend_normal |-> None,
     decal_blend_specular |-> None, decal_blend_roughness |-> None,
     decal_blend_emission |-> None, alpha_test_enabled |-> None,
     alpha_reference |-> None, fog_enabled |-> None, opacity |-> None,
     culling_mode |-> "DontCare", z_bias |-> None, z_offset |-> None,
     subsurface_red |-> None, subsurface_green |-> None, subsurface_blue |-> None,
     subsurface_value |-> None]

\* a RenderState with every optional field Some, but for the name
RenderStateAll ==
    [name |-> None, enabled |-> Some(TRUE), blend_enabled |-> Some(FALSE),
     blend_mode |-> Some("TransOnOpaque"),
     decal_blend_diffuse |-> Some(LeBytes(1)), decal_blend_normal |-> Some(LeBytes(2)),
     decal_blend_specular |-> Some(LeBytes(3)), decal_blend_roughness |-> Some(LeBytes(4)),
     decal_blend_emission |-> Some(LeBytes(5)), alpha_test_enabled |-> Some(TRUE),
     alpha_reference |-> Some(LeBytes(254)), fog_enabled |-> Some(FALSE),
     opacity |-> Some(FHalf), culling_mode |-> "TwoSided", z_bias |-> Some(LeBytes(0)),
     z_offset |-> Some(FMinusTwo), subsurface_red |-> Some(FOne),
     subsurface_green |-> Some(FHalf), subsurface_blue |-> Some(FQuarter),
     subsurface_value |-> Some(F0)]

\* the names a RenderState is given: None, Some("RenderState"), Some("rs")
RenderStateNames == {None, Some(RenderStateName), Some(<<114, 115>>)}

RenderStates ==
    {[rs EXCEPT !.name = n] : rs \in {RenderStateNone, RenderStateAll}, n \in RenderStateNames}

\* the instance the others are variations of
BaseInstance ==
    [id |-> 1,
     name |-> <<109, 97, 116>>,
     material_type |-> "Standard",
     tags |-> <<>>,
     class |-> None,
     descriptor |-> None,
     class_flags |-> ClassFlags_from_u32(<<5, 0, 8, 0>>),
     instance_flags |-> InstanceFlags_from_u32(<<0, 129, 0, 0>>),
     binder |-> [render_state |-> [RenderStateNone EXCEPT !.name = Some(RenderStateName)],
                 properties |-> <<>>]]

\* the instances handed to generate: every property map, every render state with
\* and without properties, every choice of class and descriptor with and without
\* textures, every material type
Instances ==
    {[BaseInstance EXCEPT !.binder.properties = p] : p \in PropertyMaps}
    \cup {[BaseInstance EXCEPT !.binder.render_state = rs, !.tags = <<116>>] :
            rs \in RenderStates}
    \cup {[BaseInstance EXCEPT !.class = c, !.descriptor = d, !.binder.properties = p] :
            c \in {None, Some(8)}, d \in {None, Some(9)},
            p \in {q \in PropertyMaps : Len(q) <= 1 /\ \A i \in 1..Len(q) : q[i].value.k = "Texture"}}
    \cup {[BaseInstance EXCEPT !.material_type = t] : t \in DOMAIN MaterialTypeStr}

-----------------------------------------------------------------------------
(* Harness of the round trip: an instance is generated, the bytes and the  *)
(* reference table are parsed.                                             *)

Init ==
    /\ pc = "instance"
    /\ inst \in Instances
    /\ word = NoValue
    /\ cflags = NoValue
    /\ iflags = NoValue
    /\ tree = NoValue
    /\ bin = <<>>
    /\ refs = <<>>
    /\ gen = NoValue
    /\ out = NoValue
    /\ edits = 0

\* what generate returned is kept: the identifier or the error, the bytes, the
\* reference table
Generated(g) ==
    /\ gen' = (IF g.ok THEN Ok(g.val.metadata.id) ELSE g)
    /\ bin' = (IF g.ok THEN g.val.mati ELSE <<>>)
    /\ refs' = (IF g.ok THEN g.val.metadata.references ELSE <<>>)

Generate ==
    /\ pc = "instance"
    /\ Generated(MaterialInstance_generate(inst))
    /\ pc' = "generated"
    /\ UNCHANGED <<word, cflags, iflags, inst, tree, out, edits>>

Parse ==
    /\ pc = "generated"
    /\ gen.ok
    /\ out' = MaterialInstance_parse(bin, [id |-> gen.val, references |-> refs])
    /\ pc' = "parsed"
    /\ UNCHANGED <<word, cflags, iflags, inst, tree, bin, refs, gen, edits>>

Next == Generate \/ Parse

Spec == Init /\ [][Next]_vars

\* the instances C1 speaks of: Vector lengths 2..4, Colour strings "#rrggbb" or
\* "#rrggbbaa" in lowercase digits
ValidValue(v) ==
    /\ v.k = "Vector" => Len(v.value) \in 2..4
    /\ v.k = "Colour" =>
         /\ Len(v.value) \in {7, 9}
         /\ v.value[1] = 35
         /\ \A i \in 2..Len(v.value) : v.value[i] \in (48..57) \cup (97..102)

ValidInstance(m) == \A i \in 1..Len(m.binder.properties) : ValidValue(m.binder.properties[i].value)

\* C1: for every MaterialInstance m built from valid field values (the render
\* state's name None or Some), generate succeeds and parse of its bytes and
\* reference table succeeds and returns a value equal to m.
C1_RoundTrip ==
    ValidInstance(inst) =>
        /\ pc = "generated" => gen.ok
        /\ pc = "parsed" => (out.ok /\ out.val = inst)

\* the entries of an instance that hold a Vector with a length in lens
VectorsOf(m, lens) ==
    {i \in 1..Len(m.binder.properties) :
        /\ m.binder.properties[i].value.k = "Vector"
        /\ Len(m.binder.properties[i].value.value) \in lens}

\* C4: generate on an instance that holds a Vector of length 0, 1 or 5 fails
\* with InvalidVector and produces no binary; when every Vector has length 2,
\* 3 or 4 it succeeds and each decodes back as a Vector with the same elements.
C4_VectorArity ==
    /\ (pc = "generated" /\ VectorsOf(inst, {0, 1, 5}) # {}) =>
          (~gen.ok /\ gen.err.e = "InvalidVector" /\ bin = <<>>)
    /\ (pc \in {"generated", "parsed"} /\ VectorsOf(inst, {0, 1, 5}) = {}) =>
          /\ gen.ok
          /\ pc = "parsed" =>
               /\ out.ok
               /\ \A i \in VectorsOf(inst, 2..4) :
                     out.val.binder.properties[i] = inst.binder.properties[i]

-----------------------------------------------------------------------------
(* Harness of crafted trees: the node tree of an instance is changed (a    *)
(* child removed, a node put in front of the children of a nested node),   *)
(* laid out by the encoder and decoded.                                    *)

\* how many changes a tree takes
MaxEdits == 2

IsNested(n) == n.t \in DOMAIN NestedName

\* the paths (child indices from the root) of the nested nodes of a tree
RECURSIVE NestedPaths(_)
NestedPaths(n) ==
    {<<>>} \cup UNION {{<<i>> \o q : q \in NestedPaths(n.v[i])} :
                        i \in {j \in 1..Len(n.v) : IsNested(n.v[j])}}

RECURSIVE NodeAt(_, _)
NodeAt(n, path) == IF path = <<>> THEN n ELSE NodeAt(n.v[Head(path)], Tail(path))

\* the tree with the children of the node at path replaced
RECURSIVE WithChildren(_, _, _)
WithChildren(n, path, kids) ==
    IF path = <<>> THEN Node(n.t, kids)
    ELSE Node(n.t, [n.v EXCEPT ![Head(path)] = WithChildren(n.v[Head(path)], Tail(path), kids)])

Without(seq, i) == SubSeq(seq, 1, i - 1) \o SubSeq(seq, i + 1, Len(seq))

\* the nodes put into a tree: a float, an empty BIND, a BMOD and a CULL whose
\* strings are no variant ("XX"), a single VALU
ExtraNodes ==
    <<Node("Opacity", FHalf),
      Node("Binder", <<>>),
      Node("BlendMode", <<88, 88>>),
      Node("CullingMode", <<88, 88>>),
      Node("Value", Single(FHalf))>>

\* the instances whose trees are changed: between them a property of every tag
TreeInstances ==
    {[BaseInstance EXCEPT !.binder.render_state.blend_mode = Some("Add"),
                          !.binder.properties = p] :
       p \in {<<[name |-> PropertyName(1),
                 value |-> [k |-> "Float", enabled |-> TRUE, value |-> FHalf]],
                [name |-> PropertyName(2),
                 value |-> [k |-> "Texture", enabled |-> TRUE, value |-> Some(7),
                            tiling_u |-> <<>>, tiling_v |-> <<49>>,
                            texture_type |-> <<50, 68>>]]>>,
              <<[name |-> PropertyName(1),
                 value |-> [k |-> "Colour", enabled |-> TRUE,
                            value |-> <<35, 102, 102, 56, 48, 48, 48>>]],
                [name |-> PropertyName(2),
                 value |-> [k |-> "Colour", enabled |-> FALSE,
                            value |-> <<35, 48, 48, 56, 48, 102, 102, 52, 48>>]]>>}}

\* the Instance node generate builds for an instance
InstanceNode(self) ==
    Node("Instance", <<Node("Name", self.name), Node("Tags", self.tags),
                       to_intermediate(self.binder).val>>)

InitTree ==
    /\ pc = "tree"
    /\ inst \in TreeInstances
    /\ tree = InstanceNode(inst)
    /\ word = NoValue
    /\ cflags = NoValue
    /\ iflags = NoValue
    /\ bin = <<>>
    /\ refs = <<>>
    /\ gen = NoValue
    /\ out = NoValue
    /\ edits = 0

RemoveChild ==
    /\ pc = "tree"
    /\ edits < MaxEdits
    /\ \E path \in NestedPaths(tree) :
         \E i \in 1..Len(NodeAt(tree, path).v) :
            tree' = WithChildren(tree, path, Without(NodeAt(tree, path).v, i))
    /\ edits' = edits + 1
    /\ UNCHANGED <<pc, word, cflags, iflags, inst, bin, refs, gen, out>>

InsertChild ==
    /\ pc = "tree"
    /\ edits < MaxEdits
    /\ \E path \in NestedPaths(tree) :
         \E k \in 1..Len(ExtraNodes) :
            tree' = WithChildren(tree, path, <<ExtraNodes[k]>> \o NodeAt(tree, path).v)
    /\ edits' = edits + 1
    /\ UNCHANGED <<pc, word, cflags, iflags, inst, bin, refs, gen, out>>

\* the bytes and the reference table of the layout are handed to parse
Decoded(g) ==
    /\ gen' = Ok(g.metadata.id)
    /\ bin' = g.mati
    /\ refs' = g.metadata.references
    /\ out' = MaterialInstance_parse(g.mati, g.metadata)

\* the tree is laid out as generate lays out its Instance node, and decoded
DecodeTree ==
    /\ pc = "tree"
    /\ Decoded(generate_layout(inst, tree))
    /\ pc' = "parsed"
    /\ UNCHANGED <<word, cflags, iflags, inst, tree, edits>>

NextTree == RemoveChild \/ InsertChild \/ DecodeTree

SpecTree == InitTree /\ [][NextTree]_vars

\* what the claims about crafted trees say of the tree that was decoded

HasChild(kids, t) == \E i \in 1..Len(kids) : kids[i].t = t

\* the BIND node the decoder reads, its RSTA node, and its other children
TreeBind == FindMap(tree.v, "Binder")
TreeRsta == IF IsSome(TreeBind) THEN FindMap(TreeBind[1], "RenderState") ELSE None
TreeProps ==
    IF IsSome(TreeBind)
    THEN SelectSeq(TreeBind[1], LAMBDA n : n.t # "RenderState")
    ELSE <<>>

PropertyTags == {"FloatValue", "Texture", "Color", "Color4"}

\* the mandatory children of a node, in the order the decoder asks for them
Required(level) ==
    CASE level = "Instance" ->
           <<<<"Name", "NAME">>, <<"Tags", "TAGS">>, <<"Binder", "BIND">>>>
      [] level = "Binder" -> <<<<"RenderState", "RSTA">>>>
      [] level = "RenderState" -> <<<<"CullingMode", "CULL">>>>
      [] level \in {"FloatValue", "Color", "Color4"} ->
           <<<<"Name", "NAME">>, <<"Enabled", "ENAB">>, <<"Value", "VALU">>>>
      [] level = "Texture" ->
           <<<<"Name", "NAME">>, <<"Enabled", "ENAB">>, <<"TilingU", "TILU">>,
             <<"TilingV", "TILV">>, <<"TextureID", "TXID">>, <<"Type", "TYPE">>>>
      [] OTHER -> <<>>

\* the tags of the mandatory children that a node lacks
Absent(kids, level) ==
    LET lacking == SelectSeq(Required(level), LAMBDA r : ~HasChild(kids, r[1]))
    IN [i \in 1..Len(lacking) |-> lacking[i][2]]

RECURSIVE AbsentInProps(_, _)
AbsentInProps(props, i) ==
    IF i > Len(props) THEN <<>>
    ELSE Absent(props[i].v, props[i].t) \o AbsentInProps(props, i + 1)

\* the absent children the required-field claim lists
AbsentListed ==
    Absent(tree.v, "Instance")
    \o (IF IsSome(TreeBind) THEN Absent(TreeBind[1], "Binder") ELSE <<>>)
    \o AbsentInProps(TreeProps, 1)

\* every absent mandatory child, in decoding order
AbsentAll ==
    Absent(tree.v, "Instance")
    \o (IF IsSome(TreeBind) THEN Absent(TreeBind[1], "Binder") ELSE <<>>)
    \o (IF IsSome(TreeRsta) THEN Absent(TreeRsta[1], "RenderState") ELSE <<>>)
    \o AbsentInProps(TreeProps, 1)

\* the first node of a tag holds a string that is no variant of the table
BadString(kids, t, table) ==
    /\ HasChild(kids, t)
    /\ FindMap(kids, t)[1] \notin {table[v] : v \in DOMAIN table}

BadColour(n) ==
    /\ n.t \in {"Color", "Color4"}
    /\ HasChild(n.v, "Value")
    /\ LET value == FindMap(n.v, "Value")[1]
       IN \/ value.fk # "Vector"
          \/ Len(value.fv) # (IF n.t = "Color" THEN 3 ELSE 4)

\* a defect of the tree other than an absent mandatory child
OtherDefect ==
    \/ /\ IsSome(TreeRsta)
       /\ \/ BadString(TreeRsta[1], "BlendMode", BlendModeStr)
          \/ BadString(TreeRsta[1], "CullingMode", CullingModeStr)
    \/ \E i \in 1..Len(TreeProps) :
          TreeProps[i].t \notin PropertyTags \/ BadColour(TreeProps[i])

FailedWith(e) == ~out.ok /\ out.err.e = e

NamesTag(tag) == FailedWith("RequiredPropertyNotFound") /\ out.err.a = <<tag>>

\* the decoded tree has NAME, TAGS and BIND under INST and an RSTA without CULL
NoCull ==
    /\ pc = "parsed"
    /\ Absent(tree.v, "Instance") = <<>>
    /\ IsSome(TreeRsta)
    /\ ~HasChild(TreeRsta[1], "CullingMode")

\* C5, as stated: decoding a tree whose RSTA has no CULL fails with
\* RequiredPropertyNotFound("CULL"), whatever else the RSTA holds.
C5_NoCullAlwaysNamesCull == NoCull => NamesTag("CULL")

\* C5, amended: decoding a tree whose RSTA has no CULL always fails, and no
\* culling mode is substituted; the error is RequiredPropertyNotFound("CULL")
\* unless the first BMOD of the RSTA holds a string that is no blend mode,
\* which is reported first as InvalidBlendMode.
C5_NoCullFails ==
    NoCull =>
        IF BadString(TreeRsta[1], "BlendMode", BlendModeStr)
        THEN FailedWith("InvalidBlendMode")
        ELSE NamesTag("CULL")

\* C5 witness: an RSTA that keeps its NAME and BMOD but has lost its CULL was
\* decoded, and the error names CULL
C5_Witness ==
    /\ NoCull
    /\ HasChild(TreeRsta[1], "BlendMode")
    /\ HasChild(TreeRsta[1], "Name")
    /\ NamesTag("CULL")

\* C9, as stated: decoding fails with RequiredPropertyNotFound naming the
\* missing tag whenever one of the listed mandatory children is absent, and
\* that error is not raised when all of them are present.
C9_RequiredAsStated ==
    pc = "parsed" =>
        IF AbsentListed # <<>>
        THEN \E i \in 1..Len(AbsentListed) : NamesTag(AbsentListed[i])
        ELSE ~FailedWith("RequiredPropertyNotFound")

\* C9, amended: with CULL under RSTA counted among the mandatory children,
\* decoding fails whenever a mandatory child is absent, a
\* RequiredPropertyNotFound error always names an absent mandatory child, and
\* when the tree has no other defect the error is RequiredPropertyNotFound
\* naming the first absent child in decoding order.
C9_RequiredFields ==
    pc = "parsed" =>
        /\ AbsentAll # <<>> => ~out.ok
        /\ FailedWith("RequiredPropertyNotFound") =>
              \E i \in 1..Len(AbsentAll) : out.err.a = <<AbsentAll[i]>>
        /\ (AbsentAll # <<>> /\ ~OtherDefect) => NamesTag(Head(AbsentAll))

\* C9 witness: a TEXT node that has lost a tiling string was decoded in a tree
\* with no other defect, and the error names the tag
C9_Witness ==
    /\ pc = "parsed"
    /\ ~OtherDefect
    /\ AbsentAll \in {<<"TILU">>, <<"TILV">>}
    /\ NamesTag(Head(AbsentAll))

\* the members of each level
Members(level) ==
    CASE level = "Instance" -> {"Name", "Tags", "Binder"}
      [] level = "Binder" -> {"RenderState"} \cup PropertyTags
      [] level = "RenderState" ->
           {"Name", "Enabled", "BlendEnabled", "BlendMode", "DecalBlendDiffuse",
            "DecalBlendNormal", "DecalBlendSpecular", "DecalBlendRoughness",
            "DecalBlendEmission", "AlphaTestEnabled", "AlphaReference",
            "FogEnabled", "Opacity", "CullingMode", "ZBias", "ZOffset",
            "SubsurfaceRed", "SubsurfaceGreen", "SubsurfaceBlue", "SubsurfaceValue"}
      [] level \in {"FloatValue", "Color", "Color4"} -> {"Name", "Enabled", "Value"}
      [] level = "Texture" ->
           {"Name", "Enabled", "TilingU", "TilingV", "TextureID", "Type"}

\* some nested node of the tree has a child that is no member of its level
Misplaced ==
    \E path \in NestedPaths(tree) :
       LET n == NodeAt(tree, path)
       IN \E i \in 1..Len(n.v) : n.v[i].t \notin Members(n.t)

\* C10: decoding a tree in which a node is the child of INST, BIND, RSTA or a
\* property node without being a member of that level fails with
\* PropertyAtWrongLevel.
C10_WrongLevelRejected ==
    (pc = "parsed" /\ Misplaced) => FailedWith("PropertyAtWrongLevel")

-----------------------------------------------------------------------------
(* Harness of crafted binaries: the binary generate returns for an instance *)
(* has one of its words overwritten, or is cut short, and is then parsed.   *)

WriteWord(d, p, v) == [i \in 1..Len(d) |-> IF i \in (p + 1)..(p + 4) THEN v[i - p] ELSE d[i]]

\* an instance with a class, a descriptor and a texture: three references
PatchInstances ==
    {[BaseInstance EXCEPT
        !.class = Some(5),
        !.descriptor = Some(6),
        !.binder.properties =
            <<[name |-> PropertyName(1),
               value |-> [k |-> "Texture", enabled |-> TRUE, value |-> Some(7),
                          tiling_u |-> <<>>, tiling_v |-> <<49>>,
                          texture_type |-> <<50, 68>>]],
              [name |-> PropertyName(2), value |-> v]>>] :
       v \in {[k |-> "Float", enabled |-> TRUE, value |-> FHalf],
              [k |-> "Vector", enabled |-> FALSE, value |-> VectorOf(3)]}}

InitPatch ==
    /\ pc = "instance"
    /\ inst \in PatchInstances
    /\ word = NoValue
    /\ cflags = NoValue
    /\ iflags = NoValue
    /\ tree = NoValue
    /\ bin = <<>>
    /\ refs = <<>>
    /\ gen = NoValue
    /\ out = NoValue
    /\ edits = 0

\* one word of the binary is overwritten: with zero, with the length of the
\* reference table, with 0xFFFFFFFF or with 0xFFFFFFFE
Patch ==
    /\ pc = "generated"
    /\ edits = 0
    /\ \E p \in {q \in 0..(Len(bin) - 4) : q % 4 = 0} :
         \E v \in {LeBytes(0), LeBytes(Len(refs)), U32Max, <<254, 255, 255, 255>>} :
            bin' = WriteWord(bin, p, v)
    /\ edits' = 1
    /\ UNCHANGED <<pc, word, cflags, iflags, inst, tree, refs, gen, out>>

\* the buffer loses its end
Truncate ==
    /\ pc = "generated"
    /\ edits = 0
    /\ \E n \in 0..(Len(bin) - 1) : bin' = SubSeq(bin, 1, n)
    /\ edits' = 1
    /\ UNCHANGED <<pc, word, cflags, iflags, inst, tree, refs, gen, out>>

NextPatch == Generate \/ Patch \/ Truncate \/ Parse

SpecPatch == InitPatch /\ [][NextPatch]_vars

\* the binary generate returns for the instance, and where its reference
\* slots are: the class and descriptor indices of the second header, and the
\* data field of the TXID record
Original == MaterialInstance_generate(inst).val.mati

HeaderAt == AsUsize(WordAt(Original, 0))

ClassSlot == HeaderAt + 4

DescriptorSlot == HeaderAt + 16

TextureSlot ==
    4 + CHOOSE p \in {q \in 0..(Len(Original) - 16) : q % 4 = 0} :
            WordAt(Original, p) = TagField("TXID")

\* what the decoded instance holds for a slot
SlotValue(m, slot) ==
    CASE slot = ClassSlot -> m.class
      [] slot = DescriptorSlot -> m.descriptor
      [] slot = TextureSlot -> m.binder.properties[1].value.value

\* C3: for each of the three reference slots (TXID node, class index,
\* descriptor index) an index of 0xFFFFFFFF decodes to None, and any other
\* index at or beyond the length of the reference table makes the decode fail
\* with InvalidDependency.
C3_SentinelVersusOutOfRange ==
    pc = "parsed" =>
        \A slot \in {ClassSlot, DescriptorSlot, TextureSlot} :
           bin = WriteWord(Original, slot, WordAt(bin, slot)) =>
              LET index == WordAt(bin, slot)
              IN /\ index = U32Max => (out.ok /\ SlotValue(out.val, slot) = None)
                 /\ (index # U32Max /\ AsUsize(index) >= Len(refs)) =>
                       FailedWith("InvalidDependency")

-----------------------------------------------------------------------------
(* Harness of single records: a buffer that starts with one 16-byte record *)
(* is handed to parse_material_property, whole or cut short.               *)

\* a known tag of every kind, and a tag outside the table ("XXXX")
RecordTags ==
    {TagBytes[t] : t \in {"OPAC", "VALU", "NAME", "ENAB", "TXID", "BIND"}}
    \cup {<<88, 88, 88, 88>>}

\* kind words: 0..4, and words above 255 whose low byte is 0..3
KindWords ==
    {LeBytes(k) : k \in 0..4}
    \cup {<<0, 1, 0, 0>>, <<1, 1, 0, 0>>, <<2, 0, 0, 1>>, <<3, 0, 1, 0>>}

\* data words: 0, the end of the record, one byte later, an offset beyond
\* every buffer, 0xFFFFFFFF
DataWords == {LeBytes(0), LeBytes(16), LeBytes(17), LeBytes(64), U32Max}

CountWords == {LeBytes(c) : c \in 0..2}

\* what follows the record: nothing, "A" without its zero, "A" with it, two
\* floats, one ENAB record
Tails ==
    {<<>>, <<65>>, <<65, 0>>, FOne \o FHalf,
     TagField("ENAB") \o LeBytes(1) \o LeBytes(1) \o LeBytes(2)}

InitRecord ==
    /\ pc = "generated"
    /\ \E tag \in RecordTags, data \in DataWords, count \in CountWords,
          kind \in KindWords, tail \in Tails :
            bin = Reverse4(tag) \o data \o count \o kind \o tail
    /\ refs = <<ResourceReference(7, NormalFlags)>>
    /\ inst = NoValue
    /\ word = NoValue
    /\ cflags = NoValue
    /\ iflags = NoValue
    /\ tree = NoValue
    /\ gen = NoValue
    /\ out = NoValue
    /\ edits = 0

ParseRecord ==
    /\ pc = "generated"
    /\ out' = parse_material_property(bin, refs, 0, 1)
    /\ pc' = "parsed"
    /\ UNCHANGED <<word, cflags, iflags, inst, tree, bin, refs, gen, edits>>

NextRecord == Truncate \/ ParseRecord

SpecRecord == InitRecord /\ [][NextRecord]_vars

\* the fields of the record at the start of the buffer
RecordTag == Reverse4(WordAt(bin, 0))
RecordData == AsUsize(WordAt(bin, 4))
RecordCount == AsUsize(WordAt(bin, 8))
RecordKind == WordAt(bin, 12)

\* the table of section 6 for the tags of the harness: tag, kind code, variant
KindTable ==
    {<<TagBytes["OPAC"], LeBytes(0), "Opacity">>,
     <<TagBytes["VALU"], LeBytes(0), "Value">>,
     <<TagBytes["NAME"], LeBytes(1), "Name">>,
     <<TagBytes["ENAB"], LeBytes(2), "Enabled">>,
     <<TagBytes["TXID"], LeBytes(2), "TextureID">>,
     <<TagBytes["BIND"], LeBytes(3), "Binder">>}

\* C2: parse_material_property returns a node only when the (tag, kind code)
\* pair of the record is in the table, and the node is of that tag's variant.
C2_TagKindIntegrity ==
    (pc = "parsed" /\ out.ok) =>
        /\ Len(bin) >= 16
        /\ <<RecordTag, RecordKind, out.val.t>> \in KindTable

\* C8: decoding fails whenever a read would run past the end of the buffer:
\* the 16 bytes of the record, the floats of a vector, the child records of a
\* nested node, the bytes of a string (a pointer at or beyond the end, or no
\* zero byte before the end).
C8_TruncatedInputFails ==
    (pc = "parsed" /\ out.ok) =>
        /\ Len(bin) >= 16
        /\ (bin[13] = 0 /\ RecordCount > 1) => RecordData + 4 * RecordCount <= Len(bin)
        /\ (bin[13] = 3 /\ RecordCount > 0) => RecordData + 16 * RecordCount <= Len(bin)
        /\ bin[13] = 1 =>
              /\ RecordData < Len(bin)
              /\ \E i \in (RecordData + 1)..Len(bin) : bin[i] = 0

\* C18: a record is accepted only when its 4-byte kind field is 0, 1, 2 or 3;
\* with any other 32-bit kind value parse_material_property fails with
\* UnrecognisedEntryType.
C18_KindCodeDomain ==
    (pc = "parsed" /\ Len(bin) >= 16 /\ RecordKind \notin {LeBytes(k) : k \in 0..3}) =>
        FailedWith("UnrecognisedEntryType")

\* the floats a vector record of the buffer points at
RecordFloats == [i \in 1..RecordCount |-> WordAt(bin, RecordData + 4 * (i - 1))]

\* C19: for a kind-0 record, count = 1 yields a single float whose bits are the
\* data field, for the float tags and VALU; the record is decoded as a vector
\* only when count > 1, and then only for VALU, with exactly count floats read
\* from the offset in the data field.
C19_FloatCount ==
    (pc = "parsed" /\ Len(bin) >= 16 /\ RecordKind = LeBytes(0)) =>
        /\ (RecordCount = 1 /\ RecordTag = TagBytes["OPAC"]) =>
              (out.ok /\ out.val = Node("Opacity", WordAt(bin, 4)))
        /\ (RecordCount = 1 /\ RecordTag = TagBytes["VALU"]) =>
              (out.ok /\ out.val = Node("Value", Single(WordAt(bin, 4))))
        /\ (out.ok /\ out.val.t = "Value" /\ out.val.v.fk = "Vector") =>
              /\ RecordCount > 1
              /\ RecordTag = TagBytes["VALU"]
              /\ RecordData + 4 * RecordCount <= Len(bin)
              /\ out.val.v.fv = RecordFloats
        /\ (RecordCount > 1 /\ RecordTag # TagBytes["VALU"]) => ~out.ok

-----------------------------------------------------------------------------
(* Harness of the flag bitsets: a word is decoded, then encoded again. *)

\* the byte values the flag words are drawn from
FlagBytes == {0, 1, 8, 64, 128, 255}

FlagWords == {<<a, b, c, d>> : a \in {0, 1, 255}, b \in {0, 128, 255}, c \in FlagBytes, d \in FlagBytes}

InitFlags ==
    /\ pc = "word"
    /\ word \in FlagWords
    /\ cflags = NoValue
    /\ iflags = NoValue
    /\ inst = NoValue
    /\ tree = NoValue
    /\ bin = <<>>
    /\ refs = <<>>
    /\ gen = NoValue
    /\ out = NoValue
    /\ edits = 0

FlagsDecode ==
    /\ pc = "word"
    /\ pc' = "flags"
    /\ cflags' = ClassFlags_from_u32(word)
    /\ iflags' = InstanceFlags_from_u32(word)
    /\ UNCHANGED <<word, inst, tree, bin, refs, gen, out, edits>>

FlagsEncode ==
    /\ pc = "flags"
    /\ pc' = "reencoded"
    /\ cflags' = ClassFlags_as_u32(cflags)
    /\ iflags' = InstanceFlags_as_u32(iflags)
    /\ UNCHANGED <<word, inst, tree, bin, refs, gen, out, edits>>

NextFlags == FlagsDecode \/ FlagsEncode

SpecFlags == InitFlags /\ [][NextFlags]_vars

\* C7: for every 32-bit word x, ClassFlags::from_u32(x).as_u32() = x and
\* InstanceFlags::from_u32(x).as_u32() = x, bits above the named ones included.
C7_FlagsReproduceEveryBitPattern ==
    pc = "reencoded" => (cflags = word /\ iflags = word)

-----------------------------------------------------------------------------
(* Harness of colour nodes: a tree with one COLO or COL4 property whose    *)
(* VALU is a single float or a vector is laid out by the encoder and       *)
(* decoded.                                                                *)

\* f32 words: 0.75, 2.0
FThreeQuarters == <<0, 0, 64, 63>>
FTwo == <<0, 0, 0, 64>>

\* the channel values, each with the two hex digits of round(c * 255) clamped
\* to 0..255: 0.0 "00", 0.25 "40", 0.5 "80", 0.75 "bf", 1.0 "ff", -2.0 "00",
\* 2.0 "ff"
ChannelTable ==
    <<[c |-> F0, hex |-> <<48, 48>>],
      [c |-> FQuarter, hex |-> <<52, 48>>],
      [c |-> FHalf, hex |-> <<56, 48>>],
      [c |-> FThreeQuarters, hex |-> <<98, 102>>],
      [c |-> FOne, hex |-> <<102, 102>>],
      [c |-> FMinusTwo, hex |-> <<48, 48>>],
      [c |-> FTwo, hex |-> <<102, 102>>]>>

Channels == {ChannelTable[i].c : i \in 1..Len(ChannelTable)}

\* the vectors a VALU is given: every one of 3 channels, those of 4 channels
\* with an alpha of 0.25 or 1.0, and one each of the lengths 0, 1, 2 and 5
ColourVectors ==
    [1..3 -> Channels]
    \cup {fs \in [1..4 -> Channels] : fs[4] \in {FQuarter, FOne}}
    \cup {VectorOf(n) : n \in {0, 1, 2, MaxVector}}

\* the Instance node of BaseInstance with one property node of tag t
ColourTree(t, value) ==
    Node("Instance",
         <<Node("Name", BaseInstance.name),
           Node("Tags", BaseInstance.tags),
           Node("Binder",
                <<render_state_to_intermediate(BaseInstance.binder.render_state),
                  Node(t, <<Node("Name", PropertyName(1)),
                            Node("Enabled", BoolWord(TRUE)),
                            Node("Value", value)>>)>>)>>)

InitColour ==
    /\ pc = "tree"
    /\ inst = BaseInstance
    /\ \E t \in {"Color", "Color4"} :
          \/ \E fs \in ColourVectors : tree = ColourTree(t, Vector(fs))
          \/ \E c \in Channels : tree = ColourTree(t, Single(c))
    /\ word = NoValue
    /\ cflags = NoValue
    /\ iflags = NoValue
    /\ bin = <<>>
    /\ refs = <<>>
    /\ gen = NoValue
    /\ out = NoValue
    /\ edits = 0

NextColour == DecodeTree

SpecColour == InitColour /\ [][NextColour]_vars

\* the property node of the tree, its VALU and the channels its tag asks for
ColourNode == TreeProps[1]
ColourValue == FindMap(ColourNode.v, "Value")[1]
ColourArity == IF ColourNode.t = "Color" THEN 3 ELSE 4

\* the hex digits the table gives the channels of a vector
RECURSIVE HexOf(_)
HexOf(fs) ==
    IF fs = <<>> THEN <<>>
    ELSE (CHOOSE r \in {ChannelTable[i] : i \in 1..Len(ChannelTable)} : r.c = Head(fs)).hex
         \o HexOf(Tail(fs))

\* C11: a COLO whose VALU is not a vector of exactly 3 floats, and a COL4 whose
\* VALU is not a vector of exactly 4 floats, makes the decode fail with
\* InvalidColor carrying the NAME of the property; a decode that succeeds
\* yields a Colour of exactly that many channels.
C11_ColourArity ==
    pc = "parsed" =>
        IF BadColour(ColourNode)
        THEN FailedWith("InvalidColor") /\ out.err.a = <<PropertyName(1)>>
        ELSE /\ out.ok
             /\ out.val.binder.properties[1].value.k = "Colour"
             /\ Len(out.val.binder.properties[1].value.value) = 1 + 2 * ColourArity

\* C11 witness: a COL4 whose VALU is a vector of 3 floats was decoded and
\* refused with InvalidColor
C11_Witness ==
    /\ pc = "parsed"
    /\ ColourNode.t = "Color4"
    /\ ColourValue.fk = "Vector"
    /\ Len(ColourValue.fv) = 3
    /\ FailedWith("InvalidColor")

\* C12: a decoded colour is '#' followed, for each channel c in the order R, G,
\* B[, A], by the two lowercase hex digits of round(c * 255) clamped to
\* 0..255, ties away from zero: 0.0 gives 00, 1.0 gives ff, 0.5 gives 80,
\* channels below 0 give 00 and above 1 give ff.
C12_FloatToHex ==
    (pc = "parsed" /\ ~BadColour(ColourNode)) =>
        /\ out.ok
        /\ out.val.binder.properties[1].value.value = <<35>> \o HexOf(ColourValue.fv)

\* C12 witness: the vector [1.0, 0.5, 0.0, 1.0] was decoded as "#ff8000ff"
C12_Witness ==
    /\ pc = "parsed"
    /\ ColourNode.t = "Color4"
    /\ ColourValue = Vector(<<FOne, FHalf, F0, FOne>>)
    /\ out.ok
    /\ out.val.binder.properties[1].value.value = <<35, 102, 102, 56, 48, 48, 48, 102, 102>>

-----------------------------------------------------------------------------
(* Harness of colour strings: an instance with one Colour property, whose  *)
(* string is well formed or not, is generated and, if that succeeds,       *)
(* parsed.                                                                 *)

\* two characters of a colour string: "ff", "F0", "+f", "0g", "-1"
HexPairs == {<<102, 102>>, <<70, 48>>, <<43, 102>>, <<48, 103>>, <<45, 49>>}

\* what follows the blue pair: nothing, "4", "40", "+4", "40zz"
HexTails == {<<>>, <<52>>, <<52, 48>>, <<43, 52>>, <<52, 48, 122, 122>>}

\* the strings of a Colour: '#' or 'x', a red pair, "80", a blue pair and a
\* tail; and the short strings "", "#", "#fff", "#ff80"
ColourStrings ==
    {<<first>> \o r \o <<56, 48>> \o b \o tail :
        first \in {35, 120}, r \in HexPairs, b \in HexPairs, tail \in HexTails}
    \cup {<<>>, <<35>>, <<35, 102, 102, 102>>, <<35, 102, 102, 56, 48>>}

HexInstances ==
    {[BaseInstance EXCEPT !.binder.properties =
          <<[name |-> PropertyName(1),
             value |-> [k |-> "Colour", enabled |-> TRUE, value |-> c]]>>] :
       c \in ColourStrings}

InitHex ==
    /\ pc = "instance"
    /\ inst \in HexInstances
    /\ word = NoValue
    /\ cflags = NoValue
    /\ iflags = NoValue
    /\ tree = NoValue
    /\ bin = <<>>
    /\ refs = <<>>
    /\ gen = NoValue
    /\ out = NoValue
    /\ edits = 0

NextHex == Generate \/ Parse

SpecHex == InitHex /\ [][NextHex]_vars

\* the Colour string of the instance
HexString == inst.binder.properties[1].value.value

\* '#' followed by 6 or 8 hexadecimal digits
WellFormedHex(c) ==
    /\ Len(c) \in {7, 9}
    /\ c[1] = 35
    /\ \A i \in 2..Len(c) : HexVal(c[i]) >= 0

\* C13: generate fails with InvalidHex for every Colour string that is not
\* exactly '#' followed by 6 or 8 hexadecimal digits, and succeeds for the
\* others.
C13_MalformedHexRejected ==
    pc = "generated" =>
        IF WellFormedHex(HexString)
        THEN gen.ok
        ELSE ~gen.ok /\ gen.err.e = "InvalidHex" /\ bin = <<>>

-----------------------------------------------------------------------------
(* Harness of interleaved encodes: two calls of MaterialInstance::generate *)
(* run step by step in any order.  A call begins (the Instance node is     *)
(* built, NAME and TAGS are generated), then generates the children of     *)
(* BIND one at a time, then finishes (the BIND and INST records, the type  *)
(* name, the class and descriptor references, the second header).  Here pc,*)
(* inst, gen, bin and refs hold one value per call: refs[c] is the         *)
(* mati_references of call c and gen[c] the state of its loops.            *)

Calls == {1, 2}

TextureValue(id) ==
    [k |-> "Texture", enabled |-> TRUE, value |-> id, tiling_u |-> <<>>,
     tiling_v |-> <<49>>, texture_type |-> <<50, 68>>]

\* the property lists of the calls: textures with and without an id, a float
CallProperties ==
    {<<>>,
     <<[name |-> PropertyName(1), value |-> TextureValue(Some(7))]>>,
     <<[name |-> PropertyName(1), value |-> TextureValue(Some(7))],
       [name |-> PropertyName(2), value |-> TextureValue(Some(8))]>>,
     <<[name |-> PropertyName(1), value |-> TextureValue(None)],
       [name |-> PropertyName(2), value |-> TextureValue(Some(9))]>>,
     <<[name |-> PropertyName(1),
        value |-> [k |-> "Float", enabled |-> TRUE, value |-> FHalf]],
       [name |-> PropertyName(2), value |-> TextureValue(Some(7))]>>}

CallInstances ==
    {[BaseInstance EXCEPT !.class = c, !.descriptor = c, !.binder.properties = p] :
        c \in {None, Some(5)}, p \in CallProperties}

InitCalls ==
    /\ pc = [c \in Calls |-> "instance"]
    /\ inst \in [Calls -> CallInstances]
    /\ gen = [c \in Calls |-> NoValue]
    /\ bin = [c \in Calls |-> <<>>]
    /\ refs = [c \in Calls |-> <<>>]
    /\ word = 0
    /\ edits = 0
    /\ cflags = NoValue
    /\ iflags = NoValue
    /\ tree = NoValue
    /\ out = NoValue

\* a table every call would share: that of the first call
table_shared(tables, c) == tables[1]

\* the `&mut mati_references` a call hands to generate_property: its own
table_of(tables, c) == tables[c]

\* the call that ran last, and how often the running call changed
Ran(c) ==
    /\ word' = c
    /\ edits' = IF word \notin {0, c} THEN edits + 1 ELSE edits

\* the loops of a call once its Binder node is built: NAME and TAGS of INST are
\* generated, the loop over the children of BIND is at its first child
begin_loops(self, binder) ==
    [inst_loop |-> generate_children(Len(Align16(LeBytes(0))), <<>>,
                                     <<Node("Name", self.name), Node("Tags", self.tags)>>,
                                     1, <<>>, <<>>),
     bind |-> binder,
     i |-> 1,
     records |-> <<>>,
     resources |-> <<>>]

\* all_resources_offset of the BIND node: the resources of INST so far
bind_offset(st) == Len(Align16(LeBytes(0))) + Len(st.inst_loop.resources)

\* one turn of the loop over the children of BIND, given what
\* generate_property returned for the child
child_turn(st, g) ==
    [st EXCEPT !.i = st.i + 1,
               !.records = st.records \o g.data,
               !.resources = IF IsSome(g.resources)
                             THEN st.resources \o g.resources[1]
                             ELSE st.resources]

\* the layout of the bytes after the INST record is generated
finish_layout(self, gi) == layout_resources(self, Align16(LeBytes(0)), gi)

\* the BIND record ends the loop over the children of INST
finish_instance(self, st, gb) ==
    finish_layout(self,
                  nested_record(Len(Align16(LeBytes(0))),
                                Node("Instance", <<Node("Name", self.name),
                                                   Node("Tags", self.tags),
                                                   st.bind>>),
                                [records |-> st.inst_loop.records \o gb.data,
                                 resources |-> st.inst_loop.resources \o gb.resources[1],
                                 refs |-> gb.refs]))

\* the loop over the children of BIND is over
finish_binder(self, st, table) ==
    finish_instance(self, st,
                    nested_record(bind_offset(st), st.bind,
                                  [records |-> st.records,
                                   resources |-> st.resources,
                                   refs |-> table]))

Started(c, binder) ==
    IF binder.ok
    THEN /\ gen' = [gen EXCEPT ![c] = begin_loops(inst[c], binder.val)]
         /\ pc' = [pc EXCEPT ![c] = "binder"]
    ELSE /\ gen' = [gen EXCEPT ![c] = binder]
         /\ pc' = [pc EXCEPT ![c] = "done"]

Begin(c) ==
    /\ pc[c] = "instance"
    /\ Started(c, to_intermediate(inst[c].binder))
    /\ refs' = [refs EXCEPT ![c] = <<>>]
    /\ Ran(c)
    /\ UNCHANGED <<inst, bin, cflags, iflags, tree, out>>

ChildDone(c, g) ==
    /\ gen' = [gen EXCEPT ![c] = child_turn(gen[c], g)]
    /\ refs' = [refs EXCEPT ![c] = g.refs]

Child(c) ==
    /\ pc[c] = "binder"
    /\ gen[c].i <= Len(gen[c].bind.v)
    /\ ChildDone(c, generate_property(bind_offset(gen[c]) + Len(gen[c].resources),
                                      table_of(refs, c),
                                      gen[c].bind.v[gen[c].i]))
    /\ Ran(c)
    /\ UNCHANGED <<pc, inst, bin, cflags, iflags, tree, out>>

Finished(c, result) ==
    /\ bin' = [bin EXCEPT ![c] = result.mati]
    /\ refs' = [refs EXCEPT ![c] = result.metadata.references]
    /\ gen' = [gen EXCEPT ![c] = Ok(result.metadata.id)]

Finish(c) ==
    /\ pc[c] = "binder"
    /\ gen[c].i > Len(gen[c].bind.v)
    /\ Finished(c, finish_binder(inst[c], gen[c], table_of(refs, c)))
    /\ pc' = [pc EXCEPT ![c] = "done"]
    /\ Ran(c)
    /\ UNCHANGED <<inst, cflags, iflags, tree, out>>

NextCalls == \E c \in Calls : Begin(c) \/ Child(c) \/ Finish(c)

SpecCalls == InitCalls /\ [][NextCalls]_vars

\* what a call returns when it runs alone
Alone(c) == MaterialInstance_generate(inst[c]).val

\* C14: whatever the order in which the steps of the calls are taken, the
\* bytes and the reference table of each finished call are those the call
\* produces when it runs alone.
C14_IndependentEncodes ==
    \A c \in Calls :
       pc[c] = "done" =>
          /\ bin[c] = Alone(c).mati
          /\ refs[c] = Alone(c).metadata.references

\* C14 witness: two calls that each pushed texture references finished after
\* the running call changed at least three times
C14_Witness ==
    /\ \A c \in Calls : pc[c] = "done" /\ Len(refs[c]) >= 2
    /\ edits >= 3

-----------------------------------------------------------------------------
(* The layout of the bytes generate returns, read against the node tree    *)
(* they were generated from (round-trip harness).                          *)

\* the 4-character tag of a node
NodeTag(n) ==
    CASE n.t \in DOMAIN IntName -> IntName[n.t]
      [] n.t \in DOMAIN StringName -> StringName[n.t]
      [] n.t \in DOMAIN NestedName -> NestedName[n.t]
      [] n.t \in DOMAIN FloatName -> FloatName[n.t]
      [] n.t = "TextureID" -> "TXID"
      [] n.t = "Value" -> "VALU"

\* the bytes d hold v at offset p
HoldsAt(d, p, v) == p + Len(v) <= Len(d) /\ SubSeq(d, p + 1, p + Len(v)) = v

\* the tree the bytes of a generated instance were laid out from
GeneratedTree == InstanceNode(inst)

\* the offset of the second header: the 48 bytes that end the buffer
GeneratedHeader == Len(bin) - 48

\* the record of node n is at offset pos of d, and its data field is the offset
\* at which its payload begins: the string and its zero, the floats of a
\* vector, the records of the children, each correct in turn
RECURSIVE PointersOk(_, _, _)
PointersOk(d, pos, n) ==
    /\ HoldsAt(d, pos, TagField(NodeTag(n)))
    /\ pos + 16 <= Len(d)
    /\ CASE n.t \in DOMAIN StringName ->
              HoldsAt(d, AsUsize(WordAt(d, pos + 4)), n.v \o <<0>>)
         [] n.t = "Value" /\ n.v.fk = "Vector" ->
              HoldsAt(d, AsUsize(WordAt(d, pos + 4)), Flatten(n.v.fv))
         [] n.t \in DOMAIN NestedName ->
              \A i \in 1..Len(n.v) :
                 PointersOk(d, AsUsize(WordAt(d, pos + 4)) + 16 * (i - 1), n.v[i])
         [] OTHER -> TRUE

\* C15: in the bytes generate returns, the pointer of every string, vector and
\* nested record is the offset at which its payload begins, at every depth;
\* the instance-offset field of the header is the offset of the INST record,
\* the type-offset field that of the type name, and the word at offset 0 the
\* offset of the second header.
C15_PointersCorrect ==
    (pc = "generated" /\ gen.ok) =>
        /\ WordAt(bin, 0) = LeBytes(GeneratedHeader)
        /\ HoldsAt(bin, AsUsize(WordAt(bin, GeneratedHeader)),
                   MaterialTypeStr[inst.material_type] \o <<0>>)
        /\ WordAt(bin, GeneratedHeader + 32) = LeBytes(3)
        /\ PointersOk(bin, AsUsize(WordAt(bin, GeneratedHeader + 28)), GeneratedTree)

\* C15 witness: an instance with a vector of three floats and a texture, whose
\* strings lie three levels below INST, was generated with correct pointers
C15_Witness ==
    /\ pc = "generated"
    /\ gen.ok
    /\ Len(inst.binder.properties) = 2
    /\ inst.binder.properties[1].value.k = "Vector"
    /\ Len(inst.binder.properties[1].value.value) = 3
    /\ inst.binder.properties[2].value.k = "Texture"
    /\ PointersOk(bin, AsUsize(WordAt(bin, GeneratedHeader + 28)), GeneratedTree)

\* the bytes a node's trailing block is made of before it is padded
Payload(n) ==
    CASE n.t \in DOMAIN StringName -> n.v \o <<0>>
      [] n.t = "Value" /\ n.v.fk = "Vector" -> Flatten(n.v.fv)

\* a block is its payload followed by fewer than 16 zero bytes, and its length
\* is a multiple of 16
PaddedTo16(block, payload) ==
    /\ Len(block) % 16 = 0
    /\ Len(block) - Len(payload) \in 0..15
    /\ block = payload \o Zeros(Len(block) - Len(payload))

\* the trailing block generate_property returns for a node
BlockOf(n) == generate_property(Len(Align16(LeBytes(0))), <<>>, n).resources

\* the trailing block of node n and of every node below it: that of a string or
\* a vector is its padded payload, that of a nested node has a length that is a
\* multiple of 16
RECURSIVE BlocksAligned(_)
BlocksAligned(n) ==
    CASE n.t \in DOMAIN StringName \/ (n.t = "Value" /\ n.v.fk = "Vector") ->
              IsSome(BlockOf(n)) /\ PaddedTo16(BlockOf(n)[1], Payload(n))
      [] n.t \in DOMAIN NestedName ->
              /\ IsSome(BlockOf(n))
              /\ Len(BlockOf(n)[1]) % 16 = 0
              /\ \A i \in 1..Len(n.v) : BlocksAligned(n.v[i])
      [] OTHER -> ~IsSome(BlockOf(n))

\* the record of node n at offset pos of d, every pointer and every record
\* below it begin at a multiple of 16
RECURSIVE OffsetsAligned(_, _, _)
OffsetsAligned(d, pos, n) ==
    /\ pos % 16 = 0
    /\ CASE n.t \in DOMAIN StringName \/ (n.t = "Value" /\ n.v.fk = "Vector") ->
              AsUsize(WordAt(d, pos + 4)) % 16 = 0
         [] n.t \in DOMAIN NestedName ->
              /\ AsUsize(WordAt(d, pos + 4)) % 16 = 0
              /\ \A i \in 1..Len(n.v) :
                    OffsetsAligned(d, AsUsize(WordAt(d, pos + 4)) + 16 * (i - 1), n.v[i])
         [] OTHER -> TRUE

\* C16: every trailing block generate_property returns has a length that is a
\* multiple of 16 and is padded with zero bytes only; in the bytes generate
\* returns every node record, every pointer target and the second header
\* begin at a multiple of 16.
C16_Alignment ==
    (pc = "generated" /\ gen.ok) =>
        /\ BlocksAligned(GeneratedTree)
        /\ AsUsize(WordAt(bin, 0)) % 16 = 0
        /\ AsUsize(WordAt(bin, AsUsize(WordAt(bin, 0)))) % 16 = 0
        /\ OffsetsAligned(bin, AsUsize(WordAt(bin, AsUsize(WordAt(bin, 0)) + 28)),
                          GeneratedTree)

\* C16 witness: an instance with a texture (whose strings have 1, 2 and 3
\* bytes with their zero) and a vector of three floats (12 bytes) was generated
C16_Witness ==
    /\ pc = "generated"
    /\ gen.ok
    /\ Len(inst.binder.properties) = 2
    /\ inst.binder.properties[1].value.k = "Texture"
    /\ inst.binder.properties[2].value.k = "Vector"
    /\ Len(inst.binder.properties[2].value.value) = 3
    /\ BlocksAligned(GeneratedTree)

\* the data words of the TXID records below the record of node n at offset pos,
\* in the order of the tree
RECURSIVE TxidWords(_, _, _)
RECURSIVE TxidWordsFrom(_, _, _, _)
TxidWordsFrom(d, at, kids, i) ==
    IF i > Len(kids) THEN <<>>
    ELSE TxidWords(d, at + 16 * (i - 1), kids[i]) \o TxidWordsFrom(d, at, kids, i + 1)
TxidWords(d, pos, n) ==
    IF n.t = "TextureID" THEN <<WordAt(d, pos + 4)>>
    ELSE IF n.t \in DOMAIN NestedName
    THEN TxidWordsFrom(d, AsUsize(WordAt(d, pos + 4)), n.v, 1)
    ELSE <<>>

\* the Option<RuntimeID> of every Texture property of an instance, in property
\* order
TextureIds(m) ==
    LET textures == SelectSeq(m.binder.properties, LAMBDA p : p.value.k = "Texture")
    IN [i \in 1..Len(textures) |-> textures[i].value.value]

\* the slots of an instance in the order generate meets them: the textures,
\* the class, the descriptor
SlotIds(m) == TextureIds(m) \o <<m.class, m.descriptor>>

\* the index words of the slots in the bytes: the TXID records, the class index
\* and the descriptor index of the second header
SlotWords ==
    TxidWords(bin, AsUsize(WordAt(bin, GeneratedHeader + 28)), GeneratedTree)
    \o <<WordAt(bin, GeneratedHeader + 4), WordAt(bin, GeneratedHeader + 16)>>

\* how many of the first j slots hold Some
SomeBefore(ids, j) == Cardinality({i \in 1..j : IsSome(ids[i])})

\* C17: generate starts from an empty table and appends one entry for each
\* Texture with Some id in property order, then one for the class if Some,
\* then one for the descriptor if Some; the index written for each is the
\* length of the table minus one right after its append, so it is below the
\* final length and the entry there holds the id; a None slot appends
\* nothing and writes 0xFFFFFFFF.
C17_ReferenceAssignment ==
    (pc = "generated" /\ gen.ok) =>
        LET ids == SlotIds(inst)
        IN /\ Len(SlotWords) = Len(ids)
           /\ Len(refs) = SomeBefore(ids, Len(ids))
           /\ \A j \in 1..Len(ids) :
                 IF IsSome(ids[j])
                 THEN /\ SlotWords[j] = LeBytes(SomeBefore(ids, j) - 1)
                      /\ AsUsize(SlotWords[j]) < Len(refs)
                      /\ refs[AsUsize(SlotWords[j]) + 1].resource = ids[j][1]
                 ELSE SlotWords[j] = U32Max

\* C17 witness: an instance with a texture that has an id, a class and a
\* descriptor was generated: three entries, indices 0, 1 and 2
C17_Witness ==
    /\ pc = "generated"
    /\ gen.ok
    /\ SlotIds(inst) = <<Some(7), Some(8), Some(9)>>
    /\ SlotWords = <<LeBytes(0), LeBytes(1), LeBytes(2)>>
    /\ Len(refs) = 3

-----------------------------------------------------------------------------
(* Harness of BIND nodes: a tree whose BIND has up to three children,      *)
(* drawn from render states, well-formed property nodes and nodes of other *)
(* tags, is laid out by the encoder and decoded.                           *)

\* the most children the BIND node is given
MaxChildren == 3

\* the children a BIND is given: two RSTA nodes that differ in their CULL, a
\* FLTV "a", a TEXT "b", a COLO "c", and nodes that belong elsewhere: OPAC,
\* NAME, ENAB, VALU, an empty BIND, an empty INST
BinderChildren ==
    <<Node("RenderState", <<Node("Name", RenderStateName),
                            Node("CullingMode", CullingModeStr["OneSided"])>>),
      Node("RenderState", <<Node("Name", RenderStateName),
                            Node("CullingMode", CullingModeStr["TwoSided"])>>),
      Node("FloatValue", <<Node("Name", PropertyName(1)),
                           Node("Enabled", BoolWord(TRUE)),
                           Node("Value", Single(FHalf))>>),
      Node("Texture", <<Node("Name", PropertyName(2)),
                        Node("Enabled", BoolWord(TRUE)),
                        Node("TextureID", None),
                        Node("TilingU", <<>>),
                        Node("TilingV", <<49>>),
                        Node("Type", <<50, 68>>)>>),
      Node("Color", <<Node("Name", PropertyName(3)),
                      Node("Enabled", BoolWord(FALSE)),
                      Node("Value", Vector(<<FOne, FHalf, F0>>))>>),
      Node("Opacity", FHalf),
      Node("Name", <<110>>),
      Node("Enabled", BoolWord(TRUE)),
      Node("Value", Single(FHalf)),
      Node("Binder", <<>>),
      Node("Instance", <<>>)>>

\* the Instance node of BaseInstance with a BIND of the given children
BinderTree(kids) ==
    Node("Instance", <<Node("Name", BaseInstance.name),
                       Node("Tags", BaseInstance.tags),
                       Node("Binder", kids)>>)

InitBinder ==
    /\ pc = "tree"
    /\ inst = BaseInstance
    /\ \E n \in 0..MaxChildren :
          \E f \in [1..n -> 1..Len(BinderChildren)] :
             tree = BinderTree([i \in 1..n |-> BinderChildren[f[i]]])
    /\ word = NoValue
    /\ cflags = NoValue
    /\ iflags = NoValue
    /\ bin = <<>>
    /\ refs = <<>>
    /\ gen = NoValue
    /\ out = NoValue
    /\ edits = 0

NextBinder == DecodeTree

SpecBinder == InitBinder /\ [][NextBinder]_vars

\* the children of the BIND node of the tree
BindKids == TreeBind[1]

\* the places of the children that are neither RSTA nor a property node
WrongKids == {i \in 1..Len(BindKids) : BindKids[i].t \notin PropertyTags \cup {"RenderState"}}

FirstWrong == CHOOSE i \in WrongKids : \A j \in WrongKids : i <= j

\* the names of the property nodes among the children
KidNames == {FindMap(TreeProps[i].v, "Name")[1] : i \in 1..Len(TreeProps)}

\* C20: the render state is that of the first RSTA child of BIND and no RSTA
\* child becomes a property; when a child is neither RSTA nor FLTV, TEXT, COLO
\* or COL4 the decode fails with PropertyAtWrongLevel carrying that node (the
\* first such child); when there is none, the properties are the other
\* children.
C20_BinderMembership ==
    pc = "parsed" =>
        IF ~HasChild(BindKids, "RenderState") THEN NamesTag("RSTA")
        ELSE IF WrongKids # {}
        THEN /\ FailedWith("PropertyAtWrongLevel")
             /\ out.err.a[1].t = BindKids[FirstWrong].t
             /\ out.err.a[1].v = BindKids[FirstWrong].v
        ELSE /\ out.ok
             /\ CullingModeStr[out.val.binder.render_state.culling_mode]
                   = FindMap(TreeRsta[1], "CullingMode")[1]
             /\ Len(out.val.binder.properties) = Cardinality(KidNames)
             /\ {out.val.binder.properties[i].name :
                    i \in 1..Len(out.val.binder.properties)} = KidNames

\* C20 witness: a BIND with an RSTA, a property node and then a NAME node was
\* decoded and refused with PropertyAtWrongLevel carrying the NAME node
C20_Witness ==
    /\ pc = "parsed"
    /\ Len(BindKids) = 3
    /\ BindKids[1].t = "RenderState"
    /\ BindKids[2].t \in PropertyTags
    /\ BindKids[3].t = "Name"
    /\ FailedWith("PropertyAtWrongLevel")
    /\ out.err.a[1].t = "Name"

-----------------------------------------------------------------------------
(* The nodes to_intermediate builds, read against the instance they were   *)
(* built from (round-trip harness).                                        *)

\* the RSTA node and the property nodes of the tree of a generated instance
GeneratedRsta == GeneratedTree.v[3].v[1]
GeneratedProps == Tail(GeneratedTree.v[3].v)

\* the node of an optional field: none for None, one that carries the value
\* for Some
FieldNode(field, t) == IF IsSome(field) THEN <<Node(t, field[1])>> ELSE <<>>

\* the same for an Option<bool>, carried as the word 1 or 0
FieldNodeBool(field, t) ==
    IF IsSome(field)
    THEN <<Node(t, IF field[1] THEN LeBytes(1) ELSE LeBytes(0))>>
    ELSE <<>>

\* the children of the RSTA node of a RenderState, field by field in the order
\* NAME, ENAB, BENA, BMOD, DBDE, DBNE, DBSE, DBRE, DBEE, ATST, AREF, FENA,
\* OPAC, CULL, ZBIA, ZOFF, SSVR, SSVG, SSVB, SSBW
FieldNodes(rs) ==
    FieldNode(rs.name, "Name")
    \o FieldNodeBool(rs.enabled, "Enabled")
    \o FieldNodeBool(rs.blend_enabled, "BlendEnabled")
    \o (IF IsSome(rs.blend_mode)
        THEN <<Node("BlendMode", BlendModeStr[rs.blend_mode[1]])>> ELSE <<>>)
    \o FieldNode(rs.decal_blend_diffuse, "DecalBlendDiffuse")
    \o FieldNode(rs.decal_blend_normal, "DecalBlendNormal")
    \o FieldNode(rs.decal_blend_specular, "DecalBlendSpecular")
    \o FieldNode(rs.decal_blend_roughness, "DecalBlendRoughness")
    \o FieldNode(rs.decal_blend_emission, "DecalBlendEmission")
    \o FieldNodeBool(rs.alpha_test_enabled, "AlphaTestEnabled")
    \o FieldNode(rs.alpha_reference, "AlphaReference")
    \o FieldNodeBool(rs.fog_enabled, "FogEnabled")
    \o FieldNode(rs.opacity, "Opacity")
    \o <<Node("CullingMode", CullingModeStr[rs.culling_mode])>>
    \o FieldNode(rs.z_bias, "ZBias")
    \o FieldNode(rs.z_offset, "ZOffset")
    \o FieldNode(rs.subsurface_red, "SubsurfaceRed")
    \o FieldNode(rs.subsurface_green, "SubsurfaceGreen")
    \o FieldNode(rs.subsurface_blue, "SubsurfaceBlue")
    \o FieldNode(rs.subsurface_value, "SubsurfaceValue")

\* C21: the RSTA node to_intermediate builds has one child for each optional
\* RenderState field that is Some and none for a field that is None, plus the
\* CULL child, in the order NAME, ENAB, BENA, BMOD, DBDE, DBNE, DBSE, DBRE,
\* DBEE, ATST, AREF, FENA, OPAC, CULL, ZBIA, ZOFF, SSVR, SSVG, SSVB, SSBW,
\* and each child carries the value of its field.
C21_RenderStateSynthesis ==
    (pc = "generated" /\ gen.ok) =>
        /\ GeneratedRsta.t = "RenderState"
        /\ Len(GeneratedRsta.v) = Len(FieldNodes(inst.binder.render_state))
        /\ \A i \in 1..Len(GeneratedRsta.v) :
              /\ GeneratedRsta.v[i].t = FieldNodes(inst.binder.render_state)[i].t
              /\ GeneratedRsta.v[i].v = FieldNodes(inst.binder.render_state)[i].v

-----------------------------------------------------------------------------
(* The node to_intermediate builds for a Colour property, read against the *)
(* string it was built from (harness of colour strings).                   *)

\* the quotients byte / 255 of the pairs the colour strings are made of, as
\* the f32 nearest to the exact quotient: "ff" 255, "F0" 240, "+f" 15,
\* "80" 128, "40" 64, "4" and "+4" 4
PairTable ==
    << [pair |-> <<102, 102>>, c |-> <<0, 0, 128, 63>>],
       [pair |-> <<70, 48>>,   c |-> <<241, 240, 112, 63>>],
       [pair |-> <<43, 102>>,  c |-> <<241, 240, 112, 61>>],
       [pair |-> <<56, 48>>,   c |-> <<129, 128, 0, 63>>],
       [pair |-> <<52, 48>>,   c |-> <<129, 128, 128, 62>>],
       [pair |-> <<52>>,       c |-> <<129, 128, 128, 60>>],
       [pair |-> <<43, 52>>,   c |-> <<129, 128, 128, 60>> ] >>

\* the characters 1 + 2i and 2 + 2i of the colour string, counted from 0
PairAt(i) ==
    SubSeq(HexString, 2 + 2 * i,
           IF 3 + 2 * i <= Len(HexString) THEN 3 + 2 * i ELSE Len(HexString))

\* the property node of the generated instance
HexNode == GeneratedProps[1]

\* C22: the node of a Colour property is a COL4 whose VALU has 4 elements
\* when the string has more than 7 characters and a COLO whose VALU has 3
\* elements otherwise; its children are NAME, ENAB, VALU in that order, and
\* channel i is the byte parsed from characters 1+2i..2+2i divided by 255.
C22_ColourRouting ==
    (pc = "generated" /\ gen.ok) =>
        /\ HexNode.t = (IF Len(HexString) > 7 THEN "Color4" ELSE "Color")
        /\ Len(HexNode.v) = 3
        /\ HexNode.v[1].t = "Name" /\ HexNode.v[1].v = PropertyName(1)
        /\ HexNode.v[2].t = "Enabled" /\ HexNode.v[2].v = LeBytes(1)
        /\ HexNode.v[3].t = "Value" /\ HexNode.v[3].v.fk = "Vector"
        /\ Len(HexNode.v[3].v.fv) = (IF Len(HexString) > 7 THEN 4 ELSE 3)
        /\ \A i \in 1..Len(HexNode.v[3].v.fv) :
              \E k \in 1..Len(PairTable) :
                 /\ PairTable[k].pair = PairAt(i - 1)
                 /\ PairTable[k].c = HexNode.v[3].v.fv[i]

\* a string of 9 characters generated as a COL4 node, and one of 7 as a COLO
C22_Witness ==
    /\ pc = "generated" /\ gen.ok
    /\ HexString = <<35, 102, 102, 56, 48, 70, 48, 52, 48>>
    /\ HexNode.t = "Color4"
    /\ Len(HexNode.v[3].v.fv) = 4

-----------------------------------------------------------------------------
(* Harness of colour bytes: an instance with one Colour property whose     *)
(* string is '#' and 6 or 8 lowercase hexadecimal digits, every byte value *)
(* among its pairs, is generated and parsed.                               *)

\* '#', the pairs of b, 255 - b and 37 b mod 256 and, with alpha, of b again
ByteString(b, alpha) ==
    <<35>> \o Hex2(b) \o Hex2(255 - b) \o Hex2((b * 37) % 256)
          \o (IF alpha THEN Hex2(b) ELSE <<>>)

ByteInstances ==
    {[BaseInstance EXCEPT !.binder.properties =
          <<[name |-> PropertyName(1),
             value |-> [k |-> "Colour", enabled |-> TRUE,
                        value |-> ByteString(b, alpha)]]>>] :
       b \in 0..255, alpha \in BOOLEAN}

InitByte ==
    /\ pc = "instance"
    /\ inst \in ByteInstances
    /\ word = NoValue
    /\ cflags = NoValue
    /\ iflags = NoValue
    /\ tree = NoValue
    /\ bin = <<>>
    /\ refs = <<>>
    /\ gen = NoValue
    /\ out = NoValue
    /\ edits = 0

NextByte == Generate \/ Parse

SpecByte == InitByte /\ [][NextByte]_vars

\* the byte of the red pair of the instance's string
RedByte == 16 * HexVal(HexString[2]) + HexVal(HexString[3])

\* C23: for every byte b the channel encoded from the hex pair of b decodes
\* to b again, and every Colour string made of '#' and 6 or 8 lowercase
\* hexadecimal digits is returned unchanged, with as many channels, by
\* generate followed by parse.
C23_ColourRoundTrip ==
    /\ pc \in {"generated", "parsed"} =>
          /\ gen.ok
          /\ Len(HexNode.v[3].v.fv) = (Len(HexString) - 1) \div 2
          /\ MulRoundU8(HexNode.v[3].v.fv[1]) = RedByte
    /\ pc = "parsed" =>
          /\ out.ok
          /\ Len(out.val.binder.properties) = 1
          /\ out.val.binder.properties[1].value.k = "Colour"
          /\ out.val.binder.properties[1].value.value = HexString

\* the string "#7f805b7f" came back from parse
C23_Witness ==
    /\ pc = "parsed"
    /\ HexString = <<35, 55, 102, 56, 48, 53, 98, 55, 102>>
    /\ out.ok
    /\ out.val.binder.properties[1].value.value = HexString

-----------------------------------------------------------------------------
(* Harness of property maps: the binder of an instance is turned into its  *)
(* nodes; the NAME of a property node may then be changed to that of       *)
(* another, as in a binary whose property children share a name; the tree  *)
(* is laid out and decoded.                                                *)

MaxNames == 3

\* a value of each variant but Vector
MapValues ==
    {[k |-> "Float", enabled |-> TRUE, value |-> FHalf],
     [k |-> "Texture", enabled |-> TRUE, value |-> Some(7), tiling_u |-> <<>>,
      tiling_v |-> <<49>>, texture_type |-> <<50, 68>>],
     [k |-> "Colour", enabled |-> TRUE,
      value |-> <<35, 102, 102, 56, 48, 48, 48>>]}

\* the maps of at most MaxProps entries under distinct names, in any order
OrderedMaps ==
    UNION {{[i \in 1..n |-> [name |-> PropertyName(g[i]), value |-> f[i]]] :
              g \in {h \in [1..n -> 1..MaxNames] :
                        \A a, b \in 1..n : a # b => h[a] # h[b]},
              f \in [1..n -> MapValues]} : n \in 0..MaxProps}

InitProps ==
    /\ pc = "instance"
    /\ \E p \in OrderedMaps : inst = [BaseInstance EXCEPT !.binder.properties = p]
    /\ word = NoValue
    /\ cflags = NoValue
    /\ iflags = NoValue
    /\ tree = NoValue
    /\ bin = <<>>
    /\ refs = <<>>
    /\ gen = NoValue
    /\ out = NoValue
    /\ edits = 0

\* the Instance node generate builds from the instance
Intermediate ==
    /\ pc = "instance"
    /\ tree' = InstanceNode(inst)
    /\ pc' = "tree"
    /\ UNCHANGED <<word, cflags, iflags, inst, bin, refs, gen, out, edits>>

\* a property node under another name
WithName(n, name) == Node(n.t, [n.v EXCEPT ![1] = Node("Name", name)])

\* the NAME of one property child of BIND is changed
Rename ==
    /\ pc = "tree"
    /\ edits = 0
    /\ \E j \in 2..Len(tree.v[3].v) : \E m \in 1..MaxNames :
          tree' = [tree EXCEPT !.v[3].v[j] = WithName(@, PropertyName(m))]
    /\ edits' = 1
    /\ UNCHANGED <<pc, word, cflags, iflags, inst, bin, refs, gen, out>>

NextProps == Intermediate \/ Rename \/ DecodeTree

SpecProps == InitProps /\ [][NextProps]_vars

\* the NAME of a property node
KidName(n) == FindMap(n.v, "Name")[1]

\* the names of the nodes, each once, in the order of their first appearance
RECURSIVE FirstNames(_, _)
FirstNames(kids, seen) ==
    IF kids = <<>> THEN seen
    ELSE IF \E i \in 1..Len(seen) : seen[i] = KidName(Head(kids))
         THEN FirstNames(Tail(kids), seen)
         ELSE FirstNames(Tail(kids), Append(seen, KidName(Head(kids))))

\* the tag of the last node of that name
LastTag(kids, name) ==
    kids[CHOOSE i \in 1..Len(kids) :
            /\ KidName(kids[i]) = name
            /\ \A j \in (i + 1)..Len(kids) : KidName(kids[j]) # name].t

\* the tags of the node of a property value
TagsOf(value) ==
    CASE value.k \in {"Float", "Vector"} -> {"FloatValue"}
      [] value.k = "Texture" -> {"Texture"}
      [] value.k = "Colour" -> {"Color", "Color4"}

\* encode: BIND holds its single RSTA and then one property child per entry
\* of Binder.properties, in the order of the map
EncodedInOrder ==
    (pc = "tree" /\ edits = 0) =>
        /\ TreeBind[1][1].t = "RenderState"
        /\ Len(TreeProps) = Len(inst.binder.properties)
        /\ Len(TreeBind[1]) = 1 + Len(TreeProps)
        /\ \A i \in 1..Len(TreeProps) :
              /\ KidName(TreeProps[i]) = inst.binder.properties[i].name
              /\ TreeProps[i].t \in TagsOf(inst.binder.properties[i].value)

\* C24 as stated: encode emits one property child per entry in the order of
\* the map, and decode builds one entry per non-RSTA child of BIND, in the
\* order of the children, so that there are as many decoded properties as
\* property children.
C24_OneEntryPerChild ==
    /\ EncodedInOrder
    /\ pc = "parsed" =>
          /\ out.ok
          /\ Len(out.val.binder.properties) = Len(TreeProps)
          /\ \A i \in 1..Len(TreeProps) :
                out.val.binder.properties[i].name = KidName(TreeProps[i])

\* C24 amended: encode emits one property child per entry in the order of
\* the map; decode builds one entry per distinct NAME among the non-RSTA
\* children of BIND, in the order in which the names first appear, each
\* entry made from the last child of its name; the children of an encoded
\* binder have distinct names and come back as the map they were made from.
C24_OneEntryPerName ==
    /\ EncodedInOrder
    /\ pc = "parsed" =>
          /\ out.ok
          /\ Len(out.val.binder.properties) = Len(FirstNames(TreeProps, <<>>))
          /\ \A i \in 1..Len(out.val.binder.properties) :
                /\ out.val.binder.properties[i].name = FirstNames(TreeProps, <<>>)[i]
                /\ LastTag(TreeProps, out.val.binder.properties[i].name)
                      \in TagsOf(out.val.binder.properties[i].value)
          /\ edits = 0 => out.val.binder.properties = inst.binder.properties

\* two property children of the same NAME were decoded into one entry
C24_Witness ==
    /\ pc = "parsed"
    /\ out.ok
    /\ Len(TreeProps) = 2
    /\ KidName(TreeProps[1]) = KidName(TreeProps[2])
    /\ Len(out.val.binder.properties) = 1

-----------------------------------------------------------------------------
(* Termination of the decoder (harness of single records). *)

\* C25: parse_material_property finishes with a node or an error on every
\* buffer, also when the pointer of a kind-3 record addresses the record
\* itself: its nested calls never exhaust the call stack.
C25_DecodeTerminates ==
    pc = "parsed" => (out.ok \/ out.err.e # StackExhausted.e)

-----------------------------------------------------------------------------
(* MaterialEntity: the MATT table of override values and the MATB table of *)
(* override names.  An override is [k, value] with k one of Texture        *)
(* (value an Option<RuntimeID>), Color (a string), Float (an f32 word) and *)
(* Vector (a sequence of f32 words); the overrides map is the sequence of  *)
(* its [name, value] entries in insertion order.  A RuntimeID of this part *)
(* is a string.                                                            *)

\* a panic of the running thread: no Result is returned
Panic(what) == Err(MaterialError("panic", <<what>>))

SubtractOverflow == Panic("attempt to subtract with overflow")

SliceOutOfRange == Panic("range end index out of range for slice")

\* the f32 words of a run of bytes
WordsOf(bytes) == [i \in 1..(Len(bytes) \div 4) |-> SubSeq(bytes, 4 * i - 3, 4 * i)]

\* the bytes the MATT entry of a type holds after its type byte
PayloadLen(entry_type) ==
    CASE entry_type \in {1, 4} -> 4
      [] entry_type = 5 -> 8
      [] entry_type \in {2, 6} -> 12
      [] entry_type \in {3, 7} -> 16

\* properties.into_iter().collect::<IndexMap>()
RECURSIVE CollectIndexMap(_, _)
CollectIndexMap(entries, map) ==
    IF entries = <<>> THEN map
    ELSE CollectIndexMap(Tail(entries), IndexMapInsert(map, Head(entries)))

RECURSIVE read_names(_, _, _, _)

\* the string bytes are read and, but for the last one, pushed as a name
push_name(string_data, matb, pos, names, checked) ==
    IF ~IsSome(string_data) THEN Err(SeekError)
    ELSE IF string_data[1] = <<>>
         THEN (IF checked THEN SubtractOverflow ELSE SliceOutOfRange)
    ELSE IF ~Utf8Valid(SubSeq(string_data[1], 1, Len(string_data[1]) - 1))
         THEN Err(MaterialError("InvalidStr", <<>>))
    ELSE read_names(matb, pos + Len(string_data[1]),
                    Append(names, SubSeq(string_data[1], 1, Len(string_data[1]) - 1)),
                    checked)

\* the 4-byte length of the name is read; pos is the position after it
read_name_length(length, matb, pos, names, checked) ==
    IF ~IsSome(length) THEN Err(SeekError)
    ELSE push_name(ReadExact(matb, pos, AsUsize(length[1])), matb, pos, names, checked)

\* while matb.position() < (matb.len() - 1) as u64: the type byte, the length
\* and the string of one name entry.  The subtraction on an empty buffer
\* panics when the build checks overflow and wraps to usize::MAX otherwise.
read_names(matb, pos, names, checked) ==
    IF matb = <<>> /\ checked THEN SubtractOverflow
    ELSE IF pos >= (IF matb = <<>> THEN Huge ELSE Len(matb) - 1) THEN Ok(names)
    ELSE IF ~IsSome(ReadExact(matb, pos, 1)) THEN Err(SeekError)
    ELSE read_name_length(ReadExact(matb, pos + 1, 4), matb, pos + 5, names, checked)

\* the match on entry_type, the bytes of the entry read
override_of(entry_type, payload, references) ==
    CASE entry_type = 1 ->
           IF payload = U32Max THEN Ok([k |-> "Texture", value |-> None])
           ELSE IF IsSome(GetResource(references, payload))
                THEN Ok([k |-> "Texture", value |-> GetResource(references, payload)])
                ELSE Err(MaterialError("InvalidDependency", <<AsUsize(payload)>>))
      [] entry_type \in {2, 3} ->
           Ok([k |-> "Color", value |-> <<35>> \o format_colour(WordsOf(payload))])
      [] entry_type = 4 -> Ok([k |-> "Float", value |-> payload])
      [] entry_type \in {5, 6, 7} -> Ok([k |-> "Vector", value |-> WordsOf(payload)])

RECURSIVE read_values(_, _, _, _, _, _)

\* the value of the entry (its `?`s) is pushed under the name of its place
push_value(v, matt, pos, names, references, properties, checked) ==
    IF ~v.ok THEN v
    ELSE read_values(matt, pos, names, references,
                     Append(properties, [name |-> names[Len(properties) + 1],
                                         value |-> v.val]),
                     checked)

\* the entry after its type byte: the name of place cur_entry is looked up
\* first, then the type is matched and the bytes are read
read_value(entry_type, matt, pos, names, references, properties, checked) ==
    IF Len(properties) >= Len(names) THEN Err(MaterialError("EntryCountMismatch", <<>>))
    ELSE IF entry_type \notin 1..7
         THEN Err(MaterialError("UnrecognisedEntryType", <<entry_type>>))
    ELSE IF ~IsSome(ReadExact(matt, pos, PayloadLen(entry_type))) THEN Err(SeekError)
    ELSE push_value(override_of(entry_type,
                                ReadExact(matt, pos, PayloadLen(entry_type))[1],
                                references),
                    matt, pos + PayloadLen(entry_type), names, references,
                    properties, checked)

\* while matt.position() < (matt.len() - 1) as u64; cur_entry is the number
\* of properties pushed
read_values(matt, pos, names, references, properties, checked) ==
    IF matt = <<>> /\ checked THEN SubtractOverflow
    ELSE IF pos >= (IF matt = <<>> THEN Huge ELSE Len(matt) - 1) THEN Ok(properties)
    ELSE IF ~IsSome(ReadExact(matt, pos, 1)) THEN Err(SeekError)
    ELSE read_value(matt[pos + 1], matt, pos + 1, names, references, properties, checked)

\* the struct is built: factory, blueprint, references.get(2), the collected map
entity_of(properties, matt_metadata, matb_metadata) ==
    IF ~properties.ok THEN properties
    ELSE IF Len(matt_metadata.references) < 3
         THEN Err(MaterialError("InvalidDependency", <<2>>))
    ELSE Ok([factory |-> matt_metadata.id,
             blueprint |-> matb_metadata.id,
             material |-> matt_metadata.references[3].resource,
             overrides |-> CollectIndexMap(properties.val, <<>>)])

\* the names are read (their `?`s), then the values
entity_values(names, matt_data, matt_metadata, matb_metadata, checked) ==
    IF ~names.ok THEN names
    ELSE entity_of(read_values(matt_data, 0, names.val, matt_metadata.references,
                               <<>>, checked),
                   matt_metadata, matb_metadata)

\* MaterialEntity::parse; checked is whether the build checks integer overflow
MaterialEntity_parse(matt_data, matt_metadata, matb_data, matb_metadata, checked) ==
    entity_values(read_names(matb_data, 0, <<>>, checked),
                  matt_data, matt_metadata, matb_metadata, checked)

\* the three references every MATT starts with
EntityReferences(self) ==
    <<ResourceReference("00B4B11DA327CAD0", DefaultFlags),
      ResourceReference(self.blueprint, DefaultFlags),
      ResourceReference(self.material, DefaultFlags)>>

\* matb.extend(prop_name_len + 1), matb.extend(prop_name, 0)
name_entry(prop_name) == LeBytes(Len(prop_name) + 1) \o prop_name \o <<0>>

\* the tables after one more override: [matt, matb, references]
Tables(matt, matb, references) == [matt |-> matt, matb |-> matb, references |-> references]

\* the Color arm, its channels parsed (the `?`s of u8::from_str_radix)
colour_entry(channels, prop_name, t) ==
    IF ~channels.ok THEN channels
    ELSE Ok(Tables(t.matt \o <<Len(channels.val) - 1>> \o Flatten(channels.val),
                   t.matb \o name_entry(prop_name),
                   t.references))

\* the match on prop_val and the name entry that follows it
generate_override(prop_name, prop_val, t) ==
    CASE prop_val.k = "Texture" /\ IsSome(prop_val.value) ->
           Ok(Tables(t.matt \o <<1>> \o LeBytes(Len(t.references)),
                     t.matb \o <<1>> \o name_entry(prop_name),
                     Append(t.references,
                            ResourceReference(prop_val.value[1], DefaultFlags))))
      [] prop_val.k = "Texture" /\ ~IsSome(prop_val.value) ->
           Ok(Tables(t.matt \o <<1>> \o U32Max,
                     t.matb \o name_entry(prop_name),
                     t.references))
      [] prop_val.k = "Color" ->
           IF Len(prop_val.value) > 7
           THEN colour_entry(colour_channels(prop_val.value, 1, 4), prop_name, t)
           ELSE colour_entry(colour_channels(prop_val.value, 1, 3), prop_name, t)
      [] prop_val.k = "Float" ->
           Ok(Tables(t.matt \o <<4>> \o prop_val.value,
                     t.matb \o <<4>> \o name_entry(prop_name),
                     t.references))
      [] prop_val.k = "Vector" ->
           IF Len(prop_val.value) \notin 2..4
           THEN Err(MaterialError("InvalidVector", <<>>))
           ELSE Ok(Tables(t.matt \o <<Len(prop_val.value) + 3>> \o Flatten(prop_val.value),
                          t.matb \o <<Len(prop_val.value) + 3>> \o name_entry(prop_name),
                          t.references))

RECURSIVE generate_overrides(_, _, _)

\* one override written (its `?`), then those after it
override_then(t, overrides, i) ==
    IF ~t.ok THEN t ELSE generate_overrides(overrides, i + 1, t.val)

\* for (prop_name, prop_val) in self.overrides, from entry i on
generate_overrides(overrides, i, t) ==
    IF i > Len(overrides) THEN Ok(t)
    ELSE override_then(generate_override(overrides[i].name, overrides[i].value, t),
                       overrides, i)

\* the two buffers and their metadata
entity_result(self, t) ==
    IF ~t.ok THEN t
    ELSE Ok([matt |-> t.val.matt,
             matt_metadata |-> [id |-> self.factory, references |-> t.val.references],
             matb |-> t.val.matb,
             matb_metadata |->
                 [id |-> self.blueprint,
                  references |-> <<ResourceReference("00A1595C0918E2C9", DefaultFlags)>>]])

\* MaterialEntity::generate
MaterialEntity_generate(self) ==
    entity_result(self,
                  generate_overrides(self.overrides, 1,
                                     Tables(<<>>, <<>>, EntityReferences(self))))

-----------------------------------------------------------------------------
(* Harness of material entities: an entity is generated and the two tables *)
(* are parsed, by a build that checks integer overflow or by one that does *)
(* not (word).                                                             *)

\* Texture(Some), Texture(None), Color of 6 and of 8 digits, Float, Vector of
\* 2, 3 and 4 floats
OverrideValues ==
    {[k |-> "Texture", value |-> Some("00AAAAAAAAAAAAAA")],
     [k |-> "Texture", value |-> None],
     [k |-> "Color", value |-> <<35, 102, 102, 56, 48, 48, 48>>],
     [k |-> "Color", value |-> <<35, 48, 48, 56, 48, 102, 102, 52, 48>>],
     [k |-> "Float", value |-> FHalf]}
    \cup {[k |-> "Vector", value |-> VectorOf(n)] : n \in 2..4}

\* the maps of at most MaxProps overrides under distinct names, in any order
OverrideMaps ==
    UNION {{[i \in 1..n |-> [name |-> PropertyName(g[i]), value |-> f[i]]] :
              g \in {h \in [1..n -> 1..MaxProps] :
                        \A a, b \in 1..n : a # b => h[a] # h[b]},
              f \in [1..n -> OverrideValues]} : n \in 0..MaxProps}

Entities ==
    {[factory |-> "00FFFFFFFFFFFFFF", blueprint |-> "00BBBBBBBBBBBBBB",
      material |-> "00CCCCCCCCCCCCCC", overrides |-> o] : o \in OverrideMaps}

InitEntity ==
    /\ pc = "entity"
    /\ inst \in Entities
    /\ word \in BOOLEAN
    /\ cflags = NoValue
    /\ iflags = NoValue
    /\ tree = NoValue
    /\ bin = NoValue
    /\ refs = NoValue
    /\ gen = NoValue
    /\ out = NoValue
    /\ edits = 0

\* the buffers and metadata of a generated entity
EntityGenerated(g) ==
    /\ gen' = g
    /\ bin' = IF g.ok THEN <<g.val.matt, g.val.matb>> ELSE NoValue
    /\ refs' = IF g.ok THEN <<g.val.matt_metadata, g.val.matb_metadata>> ELSE NoValue

GenerateEntity ==
    /\ pc = "entity"
    /\ EntityGenerated(MaterialEntity_generate(inst))
    /\ pc' = "generated"
    /\ UNCHANGED <<word, cflags, iflags, inst, tree, out, edits>>

ParseEntity ==
    /\ pc = "generated"
    /\ gen.ok
    /\ out' = MaterialEntity_parse(bin[1], refs[1], bin[2], refs[2], word)
    /\ pc' = "parsed"
    /\ UNCHANGED <<word, cflags, iflags, inst, tree, bin, refs, gen, edits>>

NextEntity == GenerateEntity \/ ParseEntity

SpecEntity == InitEntity /\ [][NextEntity]_vars

\* C26: for every entity whose overrides are Texture(Some), Texture(None),
\* Color, Float and Vector of 2 to 4 floats, or none at all, generate
\* succeeds and parse of what it returns succeeds and gives the entity back.
C26_EntityRoundTrip ==
    /\ pc = "generated" => gen.ok
    /\ pc = "parsed" => (out.ok /\ out.val = inst)

-----------------------------------------------------------------------------
(* Harness of override tables: a MATB made of name entries and a MATT made *)
(* of value entries, as many or not, are handed to MaterialEntity::parse;  *)
(* tree records the entries the buffers were made of.                      *)

MaxEntries == 3

\* a MATB entry as parse reads it: a type byte, the length, the name, a zero
NameEntry(i) == <<4>> \o name_entry(PropertyName(i))

\* a name entry whose length field is 0
EmptyNameEntry == <<4>> \o LeBytes(0)

\* MATT entries: a float, no texture, the texture of reference 3, a vector of
\* two floats, a colour of three channels
ValueEntries ==
    {<<4>> \o FHalf,
     <<1>> \o U32Max,
     <<1>> \o LeBytes(3),
     <<5>> \o FOne \o FQuarter,
     <<2>> \o FOne \o FHalf \o F0}

\* the references of the MATT: the three of every entity and one texture
TableReferences ==
    <<ResourceReference("00B4B11DA327CAD0", DefaultFlags),
      ResourceReference("00BBBBBBBBBBBBBB", DefaultFlags),
      ResourceReference("00CCCCCCCCCCCCCC", DefaultFlags),
      ResourceReference("00AAAAAAAAAAAAAA", DefaultFlags)>>

\* the first n name entries, one after the other
RECURSIVE NameTable(_)
NameTable(n) == IF n = 0 THEN <<>> ELSE NameTable(n - 1) \o NameEntry(n)

InitTables ==
    /\ pc = "tables"
    /\ \E n \in 0..MaxEntries, m \in 0..MaxEntries, empty \in BOOLEAN :
          \E v \in [1..m -> ValueEntries] :
             /\ tree = [names |-> n, values |-> v, empty_name |-> empty]
             /\ bin = <<Flatten(v),
                        NameTable(n) \o (IF empty THEN EmptyNameEntry ELSE <<>>)>>
    /\ refs = <<[id |-> "00FFFFFFFFFFFFFF", references |-> TableReferences],
                [id |-> "00BBBBBBBBBBBBBB",
                 references |-> <<ResourceReference("00A1595C0918E2C9", DefaultFlags)>>]>>
    /\ word \in BOOLEAN
    /\ inst = NoValue
    /\ cflags = NoValue
    /\ iflags = NoValue
    /\ gen = NoValue
    /\ out = NoValue
    /\ edits = 0

ParseTables ==
    /\ pc = "tables"
    /\ out' = MaterialEntity_parse(bin[1], refs[1], bin[2], refs[2], word)
    /\ pc' = "parsed"
    /\ UNCHANGED <<word, cflags, iflags, inst, tree, bin, refs, gen, edits>>

NextTables == ParseTables

SpecTables == InitTables /\ [][NextTables]_vars

\* the MATB holds well-formed name entries only
NamesWellFormed == ~tree.empty_name

\* C27: parse fails with EntryCountMismatch whenever the MATB holds another
\* number of name entries than the MATT holds value entries, more or fewer;
\* when it succeeds the i-th name is paired with the i-th value.
C27_EntryCountChecked ==
    (pc = "parsed" /\ NamesWellFormed) =>
        /\ tree.names # Len(tree.values) => FailedWith("EntryCountMismatch")
        /\ out.ok =>
              /\ Len(out.val.overrides) = tree.names
              /\ \A i \in 1..Len(out.val.overrides) :
                    out.val.overrides[i].name = PropertyName(i)

-----------------------------------------------------------------------------
(* WwiseEvent (src/src/wwev.rs): the WWEV buffer of an audio event.  A     *)
(* wem_id is kept as its u32 word, a WwevError as the record of its        *)
(* variant and what it carries.                                            *)

\* ReferenceFlags { reference_type: ReferenceType::Weak, ..Default::default() }
WeakFlags == "Weak/default"

\* i32::from_le_bytes(w) as the number of turns of `for _ in 0..count`
TurnsOf(w) == IF w[4] >= 128 THEN 0 ELSE AsUsize(w)

\* wwev_meta.references: the soundbank, then the source of every streamed object
RECURSIVE StreamedReferences(_)
StreamedReferences(streamed) ==
    IF streamed = <<>> THEN <<>>
    ELSE <<ResourceReference(Head(streamed).source, WeakFlags)>>
         \o StreamedReferences(Tail(streamed))

\* references.iter().position(|x| x.resource == source).unwrap()
PositionOf(references, source) ==
    (CHOOSE i \in 1..Len(references) :
        /\ references[i].resource = source
        /\ \A j \in 1..(i - 1) : references[j].resource # source) - 1

\* the non-streamed objects: wem_id, data length, data
RECURSIVE non_streamed_bytes(_)
non_streamed_bytes(objects) ==
    IF objects = <<>> THEN <<>>
    ELSE Head(objects).wem_id \o LeBytes(Len(Head(objects).data)) \o Head(objects).data
         \o non_streamed_bytes(Tail(objects))

\* the streamed objects: reference index, wem_id, prefetch size, prefetched data
RECURSIVE streamed_bytes(_, _)
streamed_bytes(objects, references) ==
    IF objects = <<>> THEN <<>>
    ELSE LeBytes(PositionOf(references, Head(objects).source))
         \o Head(objects).wem_id
         \o (IF IsSome(Head(objects).prefetched_data)
             THEN LeBytes(Len(Head(objects).prefetched_data[1]))
                  \o Head(objects).prefetched_data[1]
             ELSE LeBytes(0))
         \o streamed_bytes(Tail(objects), references)

\* the buffer, written against the references of the metadata
wwev_bytes(self, version, references) ==
    LeBytes(Len(self.name) + 1) \o self.name \o <<0>>
    \o self.max_attenuation_radius
    \o (IF version = "H1" THEN U32Max ELSE <<>>)
    \o LeBytes(Len(self.non_streamed)) \o non_streamed_bytes(self.non_streamed)
    \o LeBytes(Len(self.streamed)) \o streamed_bytes(self.streamed, references)

\* WwiseEvent::generate
WwiseEvent_generate(self, version) ==
    [wwev |-> wwev_bytes(self, version,
                         <<ResourceReference(self.soundbank, DefaultFlags)>>
                         \o StreamedReferences(self.streamed)),
     wwev_meta |-> [id |-> self.id,
                    references |-> <<ResourceReference(self.soundbank, DefaultFlags)>>
                                   \o StreamedReferences(self.streamed)]]

\* the event is built once the whole buffer has been read
event_of(d, meta, pos, e) ==
    IF pos # Len(d) THEN Err(MaterialError("DidNotReadEntireFile", <<>>))
    ELSE IF meta.references = <<>> THEN Err(MaterialError("InvalidReference", <<0>>))
    ELSE Ok([id |-> meta.id,
             soundbank |-> meta.references[1].resource,
             name |-> e.name,
             max_attenuation_radius |-> e.max_attenuation_radius,
             non_streamed |-> e.non_streamed,
             streamed |-> e.streamed])

RECURSIVE read_streamed(_, _, _, _, _)

\* a streamed object whose 12 bytes and prefetched data are read
push_streamed(header, data, d, meta, pos, n, e) ==
    IF ~IsSome(data) THEN Err(SeekError)
    ELSE IF AsUsize(WordAt(header, 0)) >= Len(meta.references)
         THEN Err(MaterialError("InvalidReference", <<AsUsize(WordAt(header, 0))>>))
    ELSE read_streamed(d, meta, pos + Len(data[1]), n - 1,
             [e EXCEPT !.streamed =
                 Append(@, [wem_id |-> WordAt(header, 4),
                            source |-> meta.references[AsUsize(WordAt(header, 0)) + 1].resource,
                            prefetched_data |->
                                IF WordAt(header, 8) # LeBytes(0)
                                THEN Some(data[1]) ELSE None])])

\* wem_index, wem_id and prefetch_size are read; pos is the position after them
streamed_header(header, d, meta, pos, n, e) ==
    IF ~IsSome(header) THEN Err(SeekError)
    ELSE push_streamed(header[1], ReadExact(d, pos, AsUsize(WordAt(header[1], 8))),
                       d, meta, pos, n, e)

\* for _ in 0..streamed_count, n turns left, then the end of the buffer
read_streamed(d, meta, pos, n, e) ==
    IF n = 0 THEN event_of(d, meta, pos, e)
    ELSE streamed_header(ReadExact(d, pos, 12), d, meta, pos + 12, n, e)

\* streamed_count is read
streamed_count(count, d, meta, pos, e) ==
    IF ~IsSome(count) THEN Err(SeekError)
    ELSE read_streamed(d, meta, pos, AsUsize(count[1]), e)

RECURSIVE read_non_streamed(_, _, _, _, _)

\* a non-streamed object whose 8 bytes and data are read
push_non_streamed(header, data, d, meta, pos, n, e) ==
    IF ~IsSome(data) THEN Err(SeekError)
    ELSE read_non_streamed(d, meta, pos + Len(data[1]), n - 1,
             [e EXCEPT !.non_streamed =
                 Append(@, [wem_id |-> WordAt(header, 0), data |-> data[1]])])

\* wem_id and wem_size are read; pos is the position after them
non_streamed_header(header, d, meta, pos, n, e) ==
    IF ~IsSome(header) THEN Err(SeekError)
    ELSE push_non_streamed(header[1], ReadExact(d, pos, AsUsize(WordAt(header[1], 4))),
                           d, meta, pos, n, e)

\* for _ in 0..non_streamed_count, n turns left, then the streamed count
read_non_streamed(d, meta, pos, n, e) ==
    IF n = 0 THEN streamed_count(ReadExact(d, pos, 4), d, meta, pos + 4, e)
    ELSE non_streamed_header(ReadExact(d, pos, 8), d, meta, pos + 8, n, e)

\* the count read after the 0xFFFFFFFF of the H1 layout
second_count(count, d, meta, pos, e) ==
    IF ~IsSome(count) THEN Err(SeekError)
    ELSE read_non_streamed(d, meta, pos, TurnsOf(count[1]), e)

\* non_streamed_count is read; -1 says that the count is the next word
first_count(count, d, meta, pos, e) ==
    IF ~IsSome(count) THEN Err(SeekError)
    ELSE IF count[1] = U32Max THEN second_count(ReadExact(d, pos, 4), d, meta, pos + 4, e)
    ELSE read_non_streamed(d, meta, pos, TurnsOf(count[1]), e)

\* max_attenuation_radius is read
attenuation(radius, d, meta, pos, name) ==
    IF ~IsSome(radius) THEN Err(SeekError)
    ELSE first_count(ReadExact(d, pos, 4), d, meta, pos + 4,
                     [name |-> name, max_attenuation_radius |-> radius[1],
                      non_streamed |-> <<>>, streamed |-> <<>>])

\* the name bytes are read: all but the last are the name.  With no byte the
\* subtraction len() - 1 panics, or wraps and the slice panics
event_name(name_data, d, meta, pos, checked) ==
    IF ~IsSome(name_data) THEN Err(SeekError)
    ELSE IF name_data[1] = <<>>
         THEN (IF checked THEN SubtractOverflow ELSE SliceOutOfRange)
    ELSE IF ~Utf8Valid(SubSeq(name_data[1], 1, Len(name_data[1]) - 1))
         THEN Err(MaterialError("InvalidString", <<>>))
    ELSE attenuation(ReadExact(d, pos + Len(name_data[1]), 4), d, meta,
                     pos + Len(name_data[1]) + 4,
                     SubSeq(name_data[1], 1, Len(name_data[1]) - 1))

\* wwev_name_length is read
event_name_length(length, d, meta, checked) ==
    IF ~IsSome(length) THEN Err(SeekError)
    ELSE event_name(ReadExact(d, 4, AsUsize(length[1])), d, meta, 4, checked)

\* WwiseEvent::parse; checked is whether the build checks integer overflow
WwiseEvent_parse(wwev_data, wwev_metadata, checked) ==
    event_name_length(ReadExact(wwev_data, 0, 4), wwev_data, wwev_metadata, checked)

-----------------------------------------------------------------------------
(* Harness of audio events: an event is generated for a game version; the  *)
(* buffer, whole or damaged, is parsed.  word is <<version, checked>>.     *)

MaxObjects == 2

GameVersions == {"H1", "H2", "H3"}

NonStreamedObjects ==
    {[wem_id |-> LeBytes(1), data |-> <<>>],
     [wem_id |-> LeBytes(2), data |-> <<9, 9>>]}

\* two sources; no prefetched data, an empty vector of it, one byte of it
StreamedObjects ==
    {[wem_id |-> LeBytes(5), source |-> s, prefetched_data |-> p] :
        s \in {"00AAAAAAAAAAAAAA", "00ABABABABABABAB"},
        p \in {None, Some(<<>>), Some(<<7>>)}}

SeqsOf(S, n) == UNION {[1..k -> S] : k \in 0..n}

Events ==
    {[id |-> "00EEEEEEEEEEEEEE", soundbank |-> "00DDDDDDDDDDDDDD",
      name |-> name, max_attenuation_radius |-> FMinusTwo,
      non_streamed |-> ns, streamed |-> st] :
        name \in {<<>>, <<101, 118>>},
        ns \in SeqsOf(NonStreamedObjects, MaxObjects),
        st \in SeqsOf(StreamedObjects, MaxObjects)}

InitEvent ==
    /\ pc = "event"
    /\ inst \in Events
    /\ word \in GameVersions \X BOOLEAN
    /\ cflags = NoValue
    /\ iflags = NoValue
    /\ tree = NoValue
    /\ bin = NoValue
    /\ refs = NoValue
    /\ gen = NoValue
    /\ out = NoValue
    /\ edits = 0

EventGenerated(g) ==
    /\ gen' = Ok(g)
    /\ bin' = g.wwev
    /\ refs' = g.wwev_meta.references

GenerateEvent ==
    /\ pc = "event"
    /\ EventGenerated(WwiseEvent_generate(inst, word[1]))
    /\ pc' = "generated"
    /\ UNCHANGED <<word, cflags, iflags, inst, tree, out, edits>>

\* the name length of the buffer becomes 0, or the buffer loses its end
DamageEvent ==
    /\ pc = "generated"
    /\ edits = 0
    /\ \/ bin' = LeBytes(0) \o SubSeq(bin, 5, Len(bin))
       \/ \E n \in {0, 3, Len(bin) - 1} : bin' = SubSeq(bin, 1, n)
    /\ edits' = 1
    /\ UNCHANGED <<pc, word, cflags, iflags, inst, tree, refs, gen, out>>

ParseEvent ==
    /\ pc = "generated"
    /\ out' = WwiseEvent_parse(bin, [id |-> gen.val.wwev_meta.id, references |-> refs],
                               word[2])
    /\ pc' = "parsed"
    /\ UNCHANGED <<word, cflags, iflags, inst, tree, bin, refs, gen, edits>>

NextEvent == GenerateEvent \/ DamageEvent \/ ParseEvent

SpecEvent == InitEvent /\ [][NextEvent]_vars

\* C28: for every event and every game version, parse of the buffer and the
\* metadata generate returns succeeds, having read the whole buffer, and
\* gives the event back: prefetched data None, Some of no byte or Some of
\* bytes, streamed objects that share a source, no non-streamed object under
\* the H1 layout.
C28_EventRoundTrip ==
    (pc = "parsed" /\ edits = 0) => (out.ok /\ out.val = inst)

-----------------------------------------------------------------------------
(* Hashes ORES (src/src/ores.rs): the table of hash and string pairs.  The *)
(* map is the sequence of its [name, value] entries, name the hash as 16   *)
(* hexadecimal digits; an OresError is the record of its variant.          *)

\* i32::from_le_bytes(w)
I32(w) ==
    w[1] + 256 * w[2] + 65536 * w[3]
    + 16777216 * (IF w[4] >= 128 THEN w[4] - 256 ELSE w[4])

\* i32::to_be_bytes of a number from 0 up
BeBytes(n) == Reverse4(LeBytes(n))

\* (4 - (value.len() + 1) % 4) % 4
Pad4(len) == (4 - ((len + 1) % 4)) % 4

\* format!("{:0>2X}", b)
HexUpper(b) ==
    <<(IF b \div 16 < 10 THEN 48 + (b \div 16) ELSE 55 + (b \div 16)),
      (IF b % 16 < 10 THEN 48 + (b % 16) ELSE 55 + (b % 16))>>

RECURSIVE hex_pairs(_)
hex_pairs(s) ==
    IF s = <<>> THEN <<>>
    ELSE <<16 * HexVal(s[1]) + HexVal(s[2])>> \o hex_pairs(SubSeq(s, 3, Len(s)))

\* hex::decode(s)
hex_decode(s) ==
    IF Len(s) % 2 = 1 \/ (\E i \in 1..Len(s) : HexVal(s[i]) < 0)
    THEN Err(MaterialError("HexError", <<>>))
    ELSE Ok(hex_pairs(s))

RECURSIVE offset_of_string(_, _)
\* the bytes the first cur_value strings take: length, bytes, zero, padding
offset_of_string(values, cur_value) ==
    IF cur_value = 0 THEN 0
    ELSE offset_of_string(values, cur_value - 1)
         + 4 + Len(values[cur_value]) + 1 + Pad4(Len(values[cur_value]))

\* the hash of a record: each half of the decoded key reversed, formatted as
\* hexadecimal digits and decoded again
record_hash(hash) ==
    IF ~hash.ok THEN hash
    ELSE IF Len(hash.val) < 8 THEN SliceOutOfRange
    ELSE hex_decode(HexUpper(hash.val[4]) \o HexUpper(hash.val[3])
                    \o HexUpper(hash.val[2]) \o HexUpper(hash.val[1])
                    \o HexUpper(hash.val[8]) \o HexUpper(hash.val[7])
                    \o HexUpper(hash.val[6]) \o HexUpper(hash.val[5]))

RECURSIVE ores_records(_, _, _)

\* the record of entry i with its hash (the `?` of hex::decode), then the others
record_then(hash, data, i, written) ==
    IF ~hash.ok THEN hash
    ELSE ores_records(data, i + 1,
             written
             \o SubSeq(LeBytes(Len(data[i].value)), 1, 3) \o <<64, 0, 0, 0, 0>>
             \o LeBytes(48 + 24 * Len(data) - 12
                        + offset_of_string([k \in 1..Len(data) |-> data[k].value], i - 1))
             \o <<0, 0, 0, 0>>
             \o hash.val)

\* the first loop of the serialiser, from entry i on
ores_records(data, i, written) ==
    IF i > Len(data) THEN Ok(written)
    ELSE record_then(record_hash(hex_decode(data[i].name)), data, i, written)

\* the second loop: length, bytes, zero and, but after the last, padding
RECURSIVE ores_strings(_, _)
ores_strings(values, i) ==
    IF i > Len(values) THEN <<>>
    ELSE LeBytes(Len(values[i]) + 1) \o values[i] \o <<0>>
         \o (IF i # Len(values) THEN Zeros(Pad4(Len(values[i]))) ELSE <<>>)
         \o ores_strings(values, i + 1)

\* offsets that address the records themselves, 48 + i * 24
RECURSIVE ores_offsets_of_records(_, _)
ores_offsets_of_records(n, i) ==
    IF i >= n THEN <<>> ELSE LeBytes(48 + i * 24) \o ores_offsets_of_records(n, i + 1)

\* the offsets of the records, 40 + i * 24
RECURSIVE ores_offsets(_, _)
ores_offsets(n, i) ==
    IF i >= n THEN <<>> ELSE LeBytes(40 + i * 24) \o ores_offsets(n, i + 1)

\* the 48 bytes before the records
ores_header(values) ==
    <<66, 73, 78, 49, 0, 8, 1, 0>>
    \o BeBytes(48 + 24 * Len(values) + offset_of_string(values, Len(values))
               - Pad4(Len(values[Len(values)])) - 16)
    \o <<0, 0, 0, 0, 32, 0, 0, 0, 0, 0, 0, 0>>
    \o LeBytes(48 + 24 * Len(values) - 16)
    \o <<0, 0, 0, 0>>
    \o LeBytes(48 + 24 * Len(values) - 16)
    \o <<0, 0, 0, 0, 0, 0, 0, 0>>
    \o LeBytes(Len(values))

\* what follows the strings
ores_footer(n) ==
    <<237, 165, 235, 18>> \o LeBytes(4 + (n + 3) * 4) \o LeBytes(n + 3)
    \o <<0, 0, 0, 0, 8, 0, 0, 0, 16, 0, 0, 0>>
    \o ores_offsets(n, 0)

\* the strings and the footer after the header and the records
ores_rest(records, values) ==
    IF ~records.ok THEN records
    ELSE Ok(records.val \o ores_strings(values, 1) \o ores_footer(Len(values)))

\* serialise_hashes_ores
serialise_hashes_ores(data) ==
    IF data = <<>> THEN Err(MaterialError("ValuesEmpty", <<>>))
    ELSE ores_rest(ores_records(data, 1,
                                ores_header([k \in 1..Len(data) |-> data[k].value])),
                   [k \in 1..Len(data) |-> data[k].value])

InvalidNumber == Err(MaterialError("InvalidNumber", <<>>))

\* a + k in i32 went past i32::MAX: a panic when the build checks overflow,
\* else a negative number that u64::try_from refuses
AddOverflow(checked) ==
    IF checked THEN Panic("attempt to add with overflow") ELSE InvalidNumber

RECURSIVE hashes_entries(_, _, _, _, _)

\* the string bytes are read and the pair is inserted
hashes_insert(str_bytes, hash_bytes, bin_data, offsets, i, data, checked) ==
    IF ~IsSome(str_bytes) THEN Err(SeekError)
    ELSE IF ~Utf8Valid(str_bytes[1]) THEN Err(MaterialError("InvalidString", <<>>))
    ELSE hashes_entries(bin_data, offsets, i + 1,
             IndexMapInsert(data,
                 [name |-> HexUpper(hash_bytes[4]) \o HexUpper(hash_bytes[3])
                           \o HexUpper(hash_bytes[2]) \o HexUpper(hash_bytes[1])
                           \o HexUpper(hash_bytes[8]) \o HexUpper(hash_bytes[7])
                           \o HexUpper(hash_bytes[6]) \o HexUpper(hash_bytes[5]),
                  value |-> str_bytes[1]]),
             checked)

\* len is read at pos - 4: vec![0u8; usize::try_from(len)? - 1].  With len 0
\* the subtraction panics, or wraps and the allocation panics
hashes_string(len, hash_bytes, bin_data, pos, offsets, i, data, checked) ==
    IF ~IsSome(len) THEN Err(SeekError)
    ELSE IF I32(len[1]) < 0 THEN InvalidNumber
    ELSE IF I32(len[1]) = 0
         THEN (IF checked THEN SubtractOverflow ELSE Panic("capacity overflow"))
    ELSE hashes_insert(ReadExact(bin_data, pos, I32(len[1]) - 1), hash_bytes, bin_data,
                       offsets, i, data, checked)

\* offset_of_data is known: seek to offset_of_data + 12
hashes_data(offset_of_data, hash_bytes, bin_data, offsets, i, data, checked) ==
    IF offset_of_data > Huge - 12 THEN AddOverflow(checked)
    ELSE IF offset_of_data + 12 < 0 THEN InvalidNumber
    ELSE hashes_string(ReadExact(bin_data, offset_of_data + 12, 4), hash_bytes, bin_data,
                       offset_of_data + 16, offsets, i, data, checked)

\* offset_of_data, four bytes skipped and the eight hash bytes are read
hashes_record(record, bin_data, offsets, i, data, checked) ==
    IF ~IsSome(record) THEN Err(SeekError)
    ELSE hashes_data(I32(WordAt(record[1], 0)), SubSeq(record[1], 9, 16), bin_data,
                     offsets, i, data, checked)

\* offsets[i] is known: seek to offsets[i] + 16
hashes_entry(offset, bin_data, offsets, i, data, checked) ==
    IF offset > Huge - 16 THEN AddOverflow(checked)
    ELSE IF offset + 16 < 0 THEN InvalidNumber
    ELSE hashes_record(ReadExact(bin_data, offset + 16, 16), bin_data, offsets, i, data, checked)

\* for i in 3..number_of_entries (i counted from 0)
hashes_entries(bin_data, offsets, i, data, checked) ==
    IF i >= Len(offsets) THEN Ok(data)
    ELSE hashes_entry(I32(offsets[i + 1]), bin_data, offsets, i, data, checked)

\* the offsets are read, number_of_entries of them
hashes_offsets(offsets, bin_data, checked) ==
    IF ~IsSome(offsets) THEN Err(SeekError)
    ELSE hashes_entries(bin_data, WordsOf(offsets[1]), 3, <<>>, checked)

\* number_of_entries is read; pos is the position after it
hashes_count(count, bin_data, pos, checked) ==
    IF ~IsSome(count) THEN Err(SeekError)
    ELSE IF I32(count[1]) <= 0 THEN Ok(<<>>)
    ELSE IF I32(count[1]) > Len(bin_data) THEN Err(SeekError)
    ELSE hashes_offsets(ReadExact(bin_data, pos, 4 * I32(count[1])), bin_data, checked)

\* end_of_strings is read, big-endian: seek to end_of_strings + 24
hashes_end(end_of_strings, bin_data, checked) ==
    IF ~IsSome(end_of_strings) THEN Err(SeekError)
    ELSE IF I32(Reverse4(end_of_strings[1])) < 0 THEN InvalidNumber
    ELSE IF I32(Reverse4(end_of_strings[1])) > Len(bin_data) THEN Err(SeekError)
    ELSE hashes_count(ReadExact(bin_data, I32(Reverse4(end_of_strings[1])) + 24, 4), bin_data,
                      I32(Reverse4(end_of_strings[1])) + 28, checked)

\* parse_hashes_ores; checked is whether the build checks integer overflow
parse_hashes_ores(bin_data, checked) ==
    hashes_end(ReadExact(bin_data, 8, 4), bin_data, checked)

\* parse_json_ores: vec![0u8; bin_data.len() - 36 - 17] is read at offset 36.
\* Below 53 bytes the subtraction panics, or wraps and the allocation panics
parse_json_ores(bin_data, checked) ==
    IF Len(bin_data) < 53
    THEN (IF checked THEN SubtractOverflow ELSE Panic("capacity overflow"))
    ELSE IF ~Utf8Valid(SubSeq(bin_data, 37, Len(bin_data) - 17))
         THEN Err(MaterialError("InvalidString", <<>>))
    ELSE Ok(SubSeq(bin_data, 37, Len(bin_data) - 17))

-----------------------------------------------------------------------------
(* Harness of hash tables: a map is serialised and the bytes are parsed.   *)

MaxHashes == 2

\* "00AB12CD34EF5678", "FEDCBA9876543210", "0123456789ABCDEF"
HashKeys ==
    << <<48, 48, 65, 66, 49, 50, 67, 68, 51, 52, 69, 70, 53, 54, 55, 56>>,
       <<70, 69, 68, 67, 66, 65, 57, 56, 55, 54, 53, 52, 51, 50, 49, 48>>,
       <<48, 49, 50, 51, 52, 53, 54, 55, 56, 57, 65, 66, 67, 68, 69, 70>> >>

\* strings of 0 to 5 bytes: every remainder of the length modulo 4
HashValues ==
    {<<>>, <<97>>, <<97, 98>>, <<97, 98, 99>>, <<97, 98, 99, 100>>,
     <<104, 101, 108, 108, 111>>}

\* the maps of at most MaxHashes entries under distinct keys, in any order
HashMaps ==
    UNION {{[i \in 1..n |-> [name |-> HashKeys[g[i]], value |-> f[i]]] :
              g \in {h \in [1..n -> 1..Len(HashKeys)] :
                        \A a, b \in 1..n : a # b => h[a] # h[b]},
              f \in [1..n -> HashValues]} : n \in 0..MaxHashes}

InitHashes ==
    /\ pc = "map"
    /\ inst \in HashMaps
    /\ word \in BOOLEAN
    /\ cflags = NoValue
    /\ iflags = NoValue
    /\ tree = NoValue
    /\ bin = NoValue
    /\ refs = NoValue
    /\ gen = NoValue
    /\ out = NoValue
    /\ edits = 0

HashesSerialised(g) ==
    /\ gen' = g
    /\ bin' = IF g.ok THEN g.val ELSE NoValue

SerialiseHashes ==
    /\ pc = "map"
    /\ HashesSerialised(serialise_hashes_ores(inst))
    /\ pc' = "generated"
    /\ UNCHANGED <<word, cflags, iflags, inst, tree, refs, out, edits>>

ParseHashes ==
    /\ pc = "generated"
    /\ gen.ok
    /\ out' = parse_hashes_ores(bin, word)
    /\ pc' = "parsed"
    /\ UNCHANGED <<word, cflags, iflags, inst, tree, bin, refs, gen, edits>>

NextHashes == SerialiseHashes \/ ParseHashes

SpecHashes == InitHashes /\ [][NextHashes]_vars

\* where the serialised buffer says its strings end
EndOfStrings == I32(Reverse4(WordAt(bin, 8))) + 16

\* the offset the table after the strings holds for entry i (from 1)
RecordOffset(i) == I32(WordAt(bin, EndOfStrings + 12 + 4 * (i + 2)))

\* where the record of entry i says its string is: the length word
StringOffset(i) == I32(WordAt(bin, RecordOffset(i) + 16)) + 12

\* the bytes of a key, each half reversed
KeyBytes(name) ==
    <<16 * HexVal(name[7]) + HexVal(name[8]), 16 * HexVal(name[5]) + HexVal(name[6]),
      16 * HexVal(name[3]) + HexVal(name[4]), 16 * HexVal(name[1]) + HexVal(name[2]),
      16 * HexVal(name[15]) + HexVal(name[16]), 16 * HexVal(name[13]) + HexVal(name[14]),
      16 * HexVal(name[11]) + HexVal(name[12]), 16 * HexVal(name[9]) + HexVal(name[10])>>

\* the first multiple of 4 from n on
NextMultipleOf4(n) == n + ((4 - (n % 4)) % 4)

\* every offset of the serialised buffer addresses what the parser reads there
OffsetsAddress ==
    /\ WordAt(bin, EndOfStrings) = <<237, 165, 235, 18>>
    /\ I32(WordAt(bin, EndOfStrings + 8)) = Len(inst) + 3
    /\ Len(bin) = EndOfStrings + 12 + 4 * (Len(inst) + 3)
    /\ StringOffset(1) = 48 + 24 * Len(inst)
    /\ StringOffset(Len(inst)) + 4 + Len(inst[Len(inst)].value) + 1 = EndOfStrings
    /\ \A i \in 1..Len(inst) :
          /\ RecordOffset(i) + 8 = 48 + 24 * (i - 1)
          /\ SubSeq(bin, RecordOffset(i) + 25, RecordOffset(i) + 32) = KeyBytes(inst[i].name)
          /\ I32(WordAt(bin, StringOffset(i))) = Len(inst[i].value) + 1
          /\ SubSeq(bin, StringOffset(i) + 5, StringOffset(i) + 4 + Len(inst[i].value))
                = inst[i].value
          /\ bin[StringOffset(i) + 5 + Len(inst[i].value)] = 0
          /\ i < Len(inst) =>
                StringOffset(i + 1)
                   = NextMultipleOf4(StringOffset(i) + 4 + Len(inst[i].value) + 1)

\* C29: a non-empty map whose keys are 16 uppercase hexadecimal digits is
\* serialised, every offset of the buffer (end of strings, record offsets,
\* string offsets, padding of the strings to 4 bytes) addresses the bytes the
\* parser reads for it, and parse gives the map back in the same order; the
\* empty map is refused with ValuesEmpty.
C29_HashesRoundTrip ==
    /\ pc = "generated" =>
          IF inst = <<>> THEN ~gen.ok /\ gen.err.e = "ValuesEmpty"
          ELSE gen.ok /\ OffsetsAddress
    /\ pc = "parsed" => (out.ok /\ out.val = inst)

\* a map of two entries, the first string padded, came back from parse
C29_Witness ==
    /\ pc = "parsed"
    /\ Len(inst) = 2
    /\ inst[1].value = <<97>>
    /\ inst[2].value = <<104, 101, 108, 108, 111>>
    /\ out.ok
    /\ out.val = inst

-----------------------------------------------------------------------------
(* Harness of malformed buffers: a buffer that is empty, too short or      *)
(* holds a length, count or offset out of range is handed to one of the    *)
(* four parsers (tree names it), by a build that checks integer overflow   *)
(* or by one that does not (word).                                         *)

\* the hashes ORES of the map {"00AB12CD34EF5678": "a"}: 106 bytes, the record
\* at 48, the length word of the string at 72, the marker at 78, the number of
\* offsets at 86, the offset of the record at 102
OneHash == serialise_hashes_ores(<<[name |-> HashKeys[1], value |-> <<97>>]>>).val

\* the WWEV of an event named "ev" with one streamed object
OneEvent ==
    WwiseEvent_generate(
        [id |-> "00EEEEEEEEEEEEEE", soundbank |-> "00DDDDDDDDDDDDDD",
         name |-> <<101, 118>>, max_attenuation_radius |-> FMinusTwo,
         non_streamed |-> <<>>,
         streamed |-> <<[wem_id |-> LeBytes(5), source |-> "00AAAAAAAAAAAAAA",
                         prefetched_data |-> None]>>],
        "H2")

I32Max == <<255, 255, 255, 127>>

MalformedBuffers ==
    {<<>>, <<0>>, LeBytes(0), EmptyNameEntry, NameEntry(1),
     NameEntry(1) \o EmptyNameEntry,
     <<4>> \o FHalf,
     Zeros(52), Zeros(53),
     OneEvent.wwev,
     LeBytes(0) \o SubSeq(OneEvent.wwev, 5, Len(OneEvent.wwev)),
     U32Max \o SubSeq(OneEvent.wwev, 5, Len(OneEvent.wwev)),
     OneHash,
     WriteWord(OneHash, 72, LeBytes(0)),
     WriteWord(OneHash, 72, U32Max),
     WriteWord(OneHash, 102, I32Max),
     WriteWord(OneHash, 102, <<240, 255, 255, 255>>),
     WriteWord(OneHash, 56, I32Max),
     WriteWord(OneHash, 56, U32Max),
     WriteWord(OneHash, 86, U32Max),
     WriteWord(OneHash, 86, I32Max),
     WriteWord(OneHash, 8, U32Max)}

InitMalformed ==
    /\ pc = "buffer"
    /\ bin \in MalformedBuffers
    /\ refs = <<[id |-> "00FFFFFFFFFFFFFF", references |-> TableReferences],
                [id |-> "00BBBBBBBBBBBBBB",
                 references |-> <<ResourceReference("00A1595C0918E2C9", DefaultFlags)>>]>>
    /\ word \in BOOLEAN
    /\ tree = NoValue
    /\ inst = NoValue
    /\ cflags = NoValue
    /\ iflags = NoValue
    /\ gen = NoValue
    /\ out = NoValue
    /\ edits = 0

\* the parser named p has run on the buffer
Parsed(p, result) ==
    /\ tree' = p
    /\ out' = result
    /\ pc' = "parsed"
    /\ UNCHANGED <<word, cflags, iflags, inst, bin, refs, gen, edits>>

\* the buffer as MATB, with a MATT of one float
ParseAsMatb ==
    /\ pc = "buffer"
    /\ Parsed("MaterialEntity::parse (MATB)",
              MaterialEntity_parse(<<4>> \o FHalf, refs[1], bin, refs[2], word))

\* the buffer as MATT, with a MATB of one name
ParseAsMatt ==
    /\ pc = "buffer"
    /\ Parsed("MaterialEntity::parse (MATT)",
              MaterialEntity_parse(bin, refs[1], NameEntry(1), refs[2], word))

ParseAsWwev ==
    /\ pc = "buffer"
    /\ Parsed("WwiseEvent::parse", WwiseEvent_parse(bin, OneEvent.wwev_meta, word))

ParseAsHashes ==
    /\ pc = "buffer"
    /\ Parsed("parse_hashes_ores", parse_hashes_ores(bin, word))

ParseAsJson ==
    /\ pc = "buffer"
    /\ Parsed("parse_json_ores", parse_json_ores(bin, word))

NextMalformed ==
    ParseAsMatb \/ ParseAsMatt \/ ParseAsWwev \/ ParseAsHashes \/ ParseAsJson

SpecMalformed == InitMalformed /\ [][NextMalformed]_vars

\* C30: on every buffer each of MaterialEntity::parse, WwiseEvent::parse,
\* parse_hashes_ores and parse_json_ores returns a value or an error; none
\* panics on an arithmetic overflow or an out-of-range slice.
C30_ParsersNeverPanic ==
    pc = "parsed" => ~FailedWith("panic")

====
